---- MODULE Spec2Model ----
(***************************************************************************)
(* On-call phone resolution middleware (jsm-ops-ccx-middleware).           *)
(*                                                                         *)
(* Specifications over one set of variables:                               *)
(*   Spec      server.js team endpoints + direct-client.js                 *)
(*             (schedule cache, on-call / profile queries, SQL lookup,     *)
(*             clearCaches, isHealthy), two requests in flight;            *)
(*   SpecDir   sql-data.js (directory snapshot cache, fetchPhoneData,      *)
(*             initSqlPool, force-refresh flag);                           *)
(*   SpecNorm  the phone formatting applied to a cell-phone field;         *)
(*   SpecShutdown  server.js as a process: signals, Ctrl+C, uncaught       *)
(*             errors, gracefulShutdown and exit.                          *)
(* Strings whose characters matter (phone numbers) are sequences of        *)
(* one-character strings.                                                  *)
(***************************************************************************)
EXTENDS Integers, Sequences, FiniteSets, TLC

VARIABLES
    now,             \* Date.now(), in milliseconds
    cache,           \* direct-client.js: cache.schedules / cache.phoneData
    config,          \* config.js: the settings read by direct-client / sql-data
    req,             \* server.js: the requests in flight, one record per slot
    hist,            \* history of the run (what has been cleared / resolved)
    phoneDataCache,  \* sql-data.js: phoneDataCache
    phoneDataExpiry, \* sql-data.js: phoneDataExpiry
    forceRefresh,    \* sql-data.js: _forceRefresh
    api,             \* ops-jira-api.js as seen by sql-data.js (import, flag)
    pool,            \* sql-data.js: pool
    fileThere,       \* whether config.fallback.tempFile exists on disk
    caller,          \* sql-data.js: the getPhoneNumberByEmail calls in flight
    rawPhone,        \* SpecNorm: a cell-phone field
    formatted,       \* SpecNorm: the result of formatting it
    proc,            \* server.js: the process (HTTP server, shutdown, exit)
    appState,        \* console-dashboard.js: appState
    responses        \* console-dashboard.js: the responses requestTracking wrapped

mainVars == <<cache, config, req, hist>>
dirVars  == <<phoneDataCache, phoneDataExpiry, forceRefresh, api, pool, fileThere, caller>>
normVars == <<rawPhone, formatted>>
dashVars == <<appState, responses>>
vars     == <<now, cache, config, req, hist, phoneDataCache, phoneDataExpiry,
              forceRefresh, api, pool, fileThere, caller, rawPhone, formatted, proc, dashVars>>

NULL == "null"

\* A value that may be null: None, or Some(v).
None == <<>>
Some(v) == <<v>>

\* A string held as a sequence of characters that is null.
NullString == <<NULL>>

(***************************************************************************)
(* Bounds of the model.                                                    *)
(***************************************************************************)
\* One step of the clock, in milliseconds (5 minutes).
TickMs == 300000
\* The clock of Spec runs from 0 to MaxTicks steps.
MaxTicks == 3
\* The clock of SpecDir advances DirTickFactor steps at a time ...
DirTickFactor == 12
\* ... at most MaxDirTicks times.
MaxDirTicks == 1
\* SpecNorm: the longest run of characters after the prefix of a phone field.
MaxBody == 12
\* SpecShutdown: the most requests open at a time.
MaxOpenRequests == 2
\* SpecShutdown: the most signals, key presses and uncaught errors in a run.
MaxEvents == 3

(***************************************************************************)
(* Phone formatting (sql-data.js and direct-client.js use the same code).  *)
(***************************************************************************)
Digits == {"0", "1", "2", "3", "4", "5", "6", "7", "8", "9"}

IsDigit(c) == c \in Digits

IsSpace(c) == c = " "

\* String.prototype.trim
RECURSIVE TrimLeft(_)
TrimLeft(s) ==
    IF s # <<>> /\ IsSpace(Head(s)) THEN TrimLeft(Tail(s)) ELSE s

RECURSIVE TrimRight(_)
TrimRight(s) ==
    IF s # <<>> /\ IsSpace(s[Len(s)]) THEN TrimRight(SubSeq(s, 1, Len(s) - 1)) ELSE s

Trim(s) == TrimRight(TrimLeft(s))

\* .replace(/\D/g, "")
StripNonDigits(s) == SelectSeq(s, IsDigit)

\* mutants of FormatPhone: the "1" on every digit string, the "1" on none
FormatPhoneAlwaysPrefix(cellPhone) ==
    <<"1">> \o StripNonDigits(Trim(cellPhone))

FormatPhoneNoPrefix(cellPhone) ==
    StripNonDigits(Trim(cellPhone))

\* let phoneNumber = record.cellPhone.trim().replace(/\D/g, "");
\* if (phoneNumber.length === 10) phoneNumber = "1" + phoneNumber;
FormatPhone(cellPhone) ==
    LET phoneNumber == StripNonDigits(Trim(cellPhone))
    IN  IF Len(phoneNumber) = 10 THEN <<"1">> \o phoneNumber ELSE phoneNumber

\* JavaScript truthiness of a string-or-null value
Truthy(s) == s # NullString /\ s # <<>>

(***************************************************************************)
(* SpecNorm: format every phone field of a bounded family.                 *)
(***************************************************************************)
PhonePrefixes ==
    { <<>>, <<"1">>, <<"(">>, <<" ", "+", "4", "4", " ">> }

PhoneBodies == UNION { [1..n -> {"5", "-"}] : n \in 0..MaxBody }

PhoneSamples ==
    { <<"(", "5", "5", "5", ")", " ", "1", "2", "3", "-", "4", "5", "6", "7">>,
      <<"+", "4", "4", " ", "2", "0", " ", "7", "9", "4", "6", " ", "0", "9", "5", "8">>,
      <<"N", "/", "A">> }

PhoneInputs == { p \o b : p \in PhonePrefixes, b \in PhoneBodies } \cup PhoneSamples

InitNorm ==
    /\ rawPhone \in PhoneInputs
    /\ formatted = NullString
    /\ now = 0
    /\ cache = NULL /\ config = NULL /\ req = NULL /\ hist = NULL
    /\ phoneDataCache = None /\ phoneDataExpiry = None /\ forceRefresh = FALSE
    /\ api = NULL /\ pool = NULL /\ fileThere = FALSE /\ caller = NULL
    /\ proc = NULL
    /\ appState = NULL /\ responses = NULL

FormatStep ==
    /\ formatted = NullString
    /\ formatted' = FormatPhone(rawPhone)
    /\ UNCHANGED <<now, mainVars, dirVars, rawPhone, proc, dashVars>>

NextNorm == FormatStep

SpecNorm == InitNorm /\ [][NextNorm]_vars

\* The reference normalisation, character by character.
RECURSIVE DigitsOf(_)
DigitsOf(s) ==
    IF s = <<>> THEN <<>>
    ELSE IF Head(s) \in Digits THEN <<Head(s)>> \o DigitsOf(Tail(s))
    ELSE DigitsOf(Tail(s))

ReferenceNormalize(s) ==
    LET d == DigitsOf(s)
    IN  IF Len(d) = 10 THEN <<"1">> \o d ELSE d

\* C8: the formatted value equals the reference function of the raw field:
\* non-digits removed, "1" prepended to exactly 10 digits, every other digit
\* string (shorter, 11, 12 or more, empty) passed through unchanged.
C8_NormalizationMatchesReference ==
    formatted # NullString =>
        /\ formatted = ReferenceNormalize(rawPhone)
        /\ \A i \in 1..Len(formatted) : formatted[i] \in Digits
        /\ (Len(DigitsOf(rawPhone)) = 10 => Len(formatted) = 11 /\ formatted[1] = "1")
        /\ (Len(DigitsOf(rawPhone)) # 10 => Len(formatted) = Len(DigitsOf(rawPhone)))
        /\ (DigitsOf(rawPhone) = <<>> => formatted = <<>>)

\* C8 witness: a 10-digit field with punctuation has been formatted and got
\* its "1".
C8_Witness ==
    /\ formatted # NullString
    /\ Len(rawPhone) > Len(DigitsOf(rawPhone))
    /\ Len(DigitsOf(rawPhone)) = 10
    /\ Len(formatted) = 11

(***************************************************************************)
(* server.js + direct-client.js                                            *)
(***************************************************************************)
\* server.js: endpoint -> exact Jira schedule name
TEAM_MAPPING ==
    [ helpdesk   |-> "Help-Desk-schedule",
      network    |-> "Network-schedule",
      ibmi       |-> "IBM-i-schedule",
      windows    |-> "Windows-schedule",
      sql        |-> "SQL-schedule",
      sharepoint |-> "SharePoint-schedule" ]

\* The endpoints the requests of the model call.
Endpoints == {"helpdesk", "network", "ibmi"}

\* cache.schedules.duration, cache.phoneData.duration
ScheduleDuration == 15 * 60 * 1000
DirectoryDuration == 60 * 60 * 1000

EmptyCache ==
    [ schedules |-> [data |-> None, expiry |-> None, duration |-> ScheduleDuration],
      phoneData |-> [data |-> None, expiry |-> None, duration |-> DirectoryDuration] ]

\* Rotations the roster service may list (data.values).
HelpDesk      == [id |-> "s1", name |-> "Help-Desk-schedule"]
Network       == [id |-> "s2", name |-> "Network-schedule"]
HelpDeskLower == [id |-> "s3", name |-> "help-desk-schedule"]
HelpDeskTwin  == [id |-> "s4", name |-> "Help-Desk-schedule"]
HelpDeskSpace == [id |-> "s5", name |-> "Help-Desk-schedule "]
HelpDeskShort == [id |-> "s6", name |-> "Help-Desk"]

RotationLists ==
    { <<>>, <<HelpDesk>>, <<HelpDeskLower, HelpDeskSpace, HelpDeskShort, Network>>, <<Network, HelpDeskTwin, HelpDesk>> }

\* Responses of GET .../v1/schedules
ListResponses ==
    { [kind |-> "transport"], [kind |-> "non2xx"], [kind |-> "novalues"] }
        \cup { [kind |-> "ok", values |-> l] : l \in RotationLists }

\* Responses of GET .../on-calls?date=...; participants NULL: no such field
OnCallResponses ==
    { [kind |-> "transport"], [kind |-> "non2xx"] }
        \cup { [kind |-> "ok", participants |-> p] :
                 p \in {NullString, <<>>, <<"p1">>, <<"p2", "p1">>} }

Emails == {"a@x.com", "A@X.COM", "b@x.com"}

\* Responses of GET /rest/api/3/user; emailAddress NULL: the profile has none
UserResponses ==
    { [kind |-> "transport"], [kind |-> "non2xx"] }
        \cup { [kind |-> "ok", emailAddress |-> e] : e \in Emails \cup {NULL} }

\* error.message of a failed request
FetchErrorMessage(kind) ==
    CASE kind = "transport" -> "request failed"
      [] kind = "non2xx"    -> "HTTP error"
      [] kind = "novalues"  -> "Invalid response format from Jira API"

\* Rows of the phone directory table.
Cell10  == <<"5", "5", "5", "-", "1", "2", "3", "-", "4", "5", "6", "7">>
Cell11  == <<"1", " ", "5", "5", "5", " ", "9", "8", "7", " ", "6", "5", "4", "3">>
Cell7   == <<"1", "2", "3", "-", "4", "5", "6", "7">>
Cell12  == <<"+", "4", "4", " ", "2", "0", " ", "7", "9", "4", "6", " ", "0", "9", "5", "8">>
CellNA  == <<"N", "/", "A">>

Row(mail, cell, ext) ==
    [fullName |-> "n", extension |-> ext, cellPhone |-> cell,
     primaryResponsibility |-> "", backup |-> "", email |-> mail]

Tables ==
    { <<>>,
      << Row("a@x.com", Cell10, <<"1", "0", "1">>), Row("b@x.com", Cell7, <<>>) >>,
      << Row("A@X.COM", Cell11, <<>>), Row("a@x.com", Cell10, <<"1", "0", "1">>) >>,
      << Row("", Cell10, <<>>), Row("b@x.com", Cell12, <<>>) >>,
      << Row("b@x.com", CellNA, <<"2", "0", "2">>), Row("a@x.com", NullString, <<"3", "0", "3">>) >>,
      << Row("a@x.com", <<>>, <<" ">>), Row("b@x.com", NullString, NullString) >> }

\* String.prototype.toLowerCase on the e-mail addresses of the model
ToLowerCase(e) == IF e = "A@X.COM" THEN "a@x.com" ELSE e

Min(S) == CHOOSE x \in S : \A y \in S : x <= y

\* WHERE EmailAddress = @email (SQL Server compares under the column's
\* collation, case-insensitive by default); SELECT TOP 1 of the matching rows
SqlSelectTop1(table, email) ==
    LET hits == { i \in 1..Len(table) :
                    ToLowerCase(table[i].email) = ToLowerCase(email) }
    IN  IF hits = {} THEN <<>> ELSE << table[Min(hits)] >>

\* The settings direct-client.js reads from config.js.
\* config.jira: which of the five settings are set
JiraSettings == {"username", "apiToken", "cloudId", "hostUrl", "basePath"}

JiraAll == [s \in JiraSettings |-> TRUE]

JiraWithout(missing) == [s \in JiraSettings |-> s # missing]

\* !JIRA_USERNAME || !JIRA_API_TOKEN || !JIRA_CLOUD_ID || !JIRA_HOST_URL || !JIRA_BASE_PATH
JiraIncomplete(jira) == \E s \in JiraSettings : ~jira[s]

MainConfigs ==
    { [jira |-> JiraAll, authMode |-> "sql",     username |-> TRUE,  password |-> TRUE,  database |-> TRUE],
      [jira |-> JiraAll, authMode |-> "windows", username |-> FALSE, password |-> FALSE, database |-> TRUE],
      [jira |-> JiraAll, authMode |-> "sql",     username |-> TRUE,  password |-> FALSE, database |-> TRUE],
      [jira |-> JiraAll, authMode |-> "windows", username |-> FALSE, password |-> FALSE, database |-> FALSE],
      [jira |-> JiraAll, authMode |-> "windows", username |-> TRUE,  password |-> TRUE,  database |-> TRUE] }
    \cup
    { [jira |-> JiraWithout(s), authMode |-> "sql", username |-> TRUE, password |-> TRUE,
       database |-> TRUE] : s \in JiraSettings }

\* The request slots. Spec runs every endpoint on the slots of TeamReqs, one
\* request at a time; SpecRace runs the readers of the rotation list (/health)
\* on all slots, concurrently.
Reqs == {"r1", "r2"}
TeamReqs == {"r1"}

NoCalls == [list |-> 0, oncall |-> 0, user |-> 0, connect |-> 0, query |-> 0]

IdleReq ==
    [ pc |-> "idle", op |-> NULL, team |-> NULL, t0 |-> 0, schedules |-> None,
      schedule |-> NULL, date |-> None, onCallParticipants |-> None,
      participant |-> NULL, email |-> NULL, sqlConfig |-> None,
      poolOpen |-> FALSE, record |-> None,
      value |-> NullString, thrown |-> NULL, status |-> 0, body |-> NullString,
      calls |-> NoCalls, found |-> NULL, warm |-> FALSE, logged |-> {} ]

\* One UTC day, in milliseconds.
DayMs == 86400000

\* The clock of the model reads 0 two steps before a UTC midnight.
WallClock(t) == DayMs - 2 * TickMs + t

\* mutant of TodayISO: the instant itself
TodayISOInstant(t) == WallClock(t)

\* new Date(Date.UTC(now.getUTCFullYear(), now.getUTCMonth(), now.getUTCDate()))
TodayISO(t) == WallClock(t) - (WallClock(t) % DayMs)

\* cache.X.data && cache.X.expiry && now < cache.X.expiry
FreshNoExpiry(slot, t) == slot.data # None

Fresh(slot, t) ==
    slot.data # None /\ slot.expiry # None /\ t < slot.expiry[1]

\* schedules.find((schedule) => schedule.name === teamName)
\* mutant of FindSchedule: names compared without case and surrounding blanks
LooseName(name) ==
    IF name \in {"help-desk-schedule", "Help-Desk-schedule "} THEN "Help-Desk-schedule"
    ELSE name

FindScheduleLoose(schedules, teamName) ==
    LET hits == { i \in 1..Len(schedules) : LooseName(schedules[i].name) = LooseName(teamName) }
    IN  IF hits = {} THEN None ELSE Some(schedules[Min(hits)])

FindSchedule(schedules, teamName) ==
    LET hits == { i \in 1..Len(schedules) : schedules[i].name = teamName }
    IN  IF hits = {} THEN None ELSE Some(schedules[Min(hits)])

\* handleTeamPhoneLookup: the response for a thrown error or a returned value
TeamResponse(thrown, value) ==
    IF thrown # NULL THEN [status |-> 500, body |-> <<thrown>>]
    ELSE IF ~Truthy(value) THEN [status |-> 404, body |-> <<"No on-call phone number found">>]
    ELSE [status |-> 200, body |-> value]

\* getTeamOnCallPhoneNumber throws: caught by handleTeamPhoneLookup
Throw(q, message) ==
    LET res == TeamResponse(message, NullString)
    IN  [q EXCEPT !.pc = "done", !.thrown = message,
                  !.status = res.status, !.body = res.body]

\* phoneNumber.length > 4 ? `****${phoneNumber.substring(phoneNumber.length - 4)}` : "****"
MaskNumber(phoneNumber) ==
    IF Len(phoneNumber) > 4
    THEN <<"*", "*", "*", "*">> \o SubSeq(phoneNumber, Len(phoneNumber) - 3, Len(phoneNumber))
    ELSE <<"*", "*", "*", "*">>

\* getTeamOnCallPhoneNumber returns phoneNumber to handleTeamPhoneLookup, which
\* logs "<team> phone number found" with the masked number and sends the number
Return(q, phoneNumber) ==
    LET res == TeamResponse(NULL, phoneNumber)
    IN  [q EXCEPT !.pc = "done", !.value = phoneNumber,
                  !.status = res.status, !.body = res.body,
                  !.logged = IF Truthy(phoneNumber)
                             THEN @ \cup {[by |-> "server", number |-> MaskNumber(phoneNumber)]}
                             ELSE @]

\* mutant of SqlConfigOf: the configured credentials are carried in both modes
SqlConfigWithCredentials(cfg) ==
    [ user |-> cfg.username, password |-> cfg.password,
      trustedConnection |-> cfg.authMode = "windows", database |-> cfg.database ]

\* getPhoneNumberByEmail (direct-client): the sqlConfig it builds; user and
\* password say whether the object carries the property with a value
SqlConfigOf(cfg) ==
    IF cfg.authMode = "windows"
    THEN [ user |-> FALSE, password |-> FALSE, trustedConnection |-> TRUE,
           database |-> cfg.database ]
    ELSE [ user |-> cfg.username, password |-> cfg.password,
           trustedConnection |-> FALSE, database |-> cfg.database ]

\* getPhoneNumberByEmail (direct-client) up to sql.connect
PhoneLookupEnter(q, email) ==
    LET q1 == [q EXCEPT !.email = email]
        sqlConfig == SqlConfigOf(config)
    IN  IF config.authMode # "windows" /\ ~(sqlConfig.user /\ sqlConfig.password)
        THEN Throw(q1, "SQL authentication requires username and password")
        ELSE IF ~sqlConfig.database
        THEN Throw(q1, "SQL database name is required")
        ELSE [q1 EXCEPT !.pc = "await_connect", !.sqlConfig = Some(sqlConfig),
                        !.calls.connect = @ + 1]

\* mutant of AfterSchedules: the on-call query is issued without a rotation
AfterSchedulesNoCheck(q, schedules) ==
    [q EXCEPT !.schedules = Some(schedules), !.pc = "await_oncall",
              !.calls.oncall = @ + 1]

\* mutant of AfterSchedules: a resolution served from the cached list reuses
\* the participant of an earlier on-call query
AfterSchedulesCachedOnCall(q, schedules) ==
    LET q1 == [q EXCEPT !.schedules = Some(schedules)]
    IN  IF q.op = "health"
        THEN [q1 EXCEPT !.pc = "done", !.status = 200,
                        !.body = IF Len(schedules) > 0 THEN <<"healthy">>
                                 ELSE <<"unhealthy">>]
        ELSE LET schedule == IF Len(schedules) = 0 THEN None
                             ELSE FindSchedule(schedules, q.team)
             IN  IF schedule = None
                 THEN Throw(q1, "No schedule found for team")
                 ELSE IF q.found = "fresh"
                 THEN [q1 EXCEPT !.pc = "await_user", !.schedule = schedule[1].id,
                                 !.participant = "p1", !.calls.user = @ + 1]
                 ELSE [q1 EXCEPT !.pc = "await_oncall", !.schedule = schedule[1].id,
                                 !.calls.oncall = @ + 1]

\* getTeamOnCallPhoneNumber / isHealthy once getSchedules has returned;
\* getOnCallUser up to its first fetch
AfterSchedules(q, schedules) ==
    LET q1 == [q EXCEPT !.schedules = Some(schedules)]
    IN  IF q.op = "health"
        THEN [q1 EXCEPT !.pc = "done", !.status = 200,
                        !.body = IF Len(schedules) > 0 THEN <<"healthy">>
                                 ELSE <<"unhealthy">>]
        ELSE LET schedule == IF Len(schedules) = 0 THEN None
                             ELSE FindSchedule(schedules, q.team)
             IN  IF schedule = None
                 THEN Throw(q1, "No schedule found for team")
                 ELSE [q1 EXCEPT !.pc = "await_oncall", !.schedule = schedule[1].id,
                                 !.date = Some(TodayISO(now)),
                                 !.calls.oncall = @ + 1]

\* ... once getSchedules has thrown
AfterSchedulesError(q, message) ==
    IF q.op = "health"
    THEN [q EXCEPT !.pc = "done", !.status = 200, !.body = <<"unhealthy">>]
    ELSE Throw(q, message)

\* mutant of GetSchedulesEnter: the request is sent whatever the settings
GetSchedulesEnterNoConfigCheck(q) ==
    IF Fresh(cache.schedules, now)
    THEN AfterSchedules(q, cache.schedules.data[1])
    ELSE [q EXCEPT !.pc = "await_schedules", !.t0 = now, !.calls.list = @ + 1]

\* mutant of GetSchedulesEnter: a reader that misses while another refill is in
\* flight waits for that refill and sends no request of its own
GetSchedulesEnterDeduplicated(q) ==
    IF Fresh(cache.schedules, now)
    THEN AfterSchedules(q, cache.schedules.data[1])
    ELSE IF JiraIncomplete(config.jira)
    THEN AfterSchedulesError(q, "Incomplete Jira API configuration")
    ELSE IF \E r \in DOMAIN req : req[r].pc = "await_schedules"
    THEN [q EXCEPT !.pc = "await_schedules", !.t0 = now]
    ELSE [q EXCEPT !.pc = "await_schedules", !.t0 = now, !.calls.list = @ + 1]

\* getSchedules up to its fetch
GetSchedulesEnter(q) ==
    IF Fresh(cache.schedules, now)
    THEN AfterSchedules(q, cache.schedules.data[1])
    ELSE IF JiraIncomplete(config.jira)
    THEN AfterSchedulesError(q, "Incomplete Jira API configuration")
    ELSE [q EXCEPT !.pc = "await_schedules", !.t0 = now, !.calls.list = @ + 1]

\* mutant of ClearCaches: the data are dropped and the expiry is kept
ClearCachesDataOnly(c) ==
    [c EXCEPT !.schedules.data = None, !.phoneData.data = None]

\* clearCaches
ClearCaches(c) ==
    [c EXCEPT !.schedules.data = None, !.schedules.expiry = None,
              !.phoneData.data = None, !.phoneData.expiry = None]

\* What the run has seen so far: the rotation names resolved to a number since
\* the last clearCaches, whether a clearCaches awaits its first read, and when
\* the fetch started whose list the schedule slot holds.
NoHist == [resolved |-> {}, pendingClear |-> FALSE, listFetchStart |-> None]

\* How a reader finds a cache slot: "empty", "expired" or "fresh".
SlotState(slot, t) ==
    IF slot.data = None \/ slot.expiry = None THEN "empty"
    ELSE IF t >= slot.expiry[1] THEN "expired"
    ELSE "fresh"

\* A request enters its handler. found and warm record how the call found the
\* caches: warm when this rotation name was resolved before, no clearCaches
\* since, inside the 15-minute and the 1-hour window.
Begin(r, op, team) ==
    GetSchedulesEnter(
        [IdleReq EXCEPT !.op = op, !.team = team,
            !.found = SlotState(cache.schedules, now),
            !.warm = /\ team \in hist.resolved
                     /\ Fresh(cache.schedules, now)
                     /\ now < DirectoryDuration])

InitMain ==
    /\ now = 0
    /\ cache = EmptyCache
    /\ config \in MainConfigs
    /\ req = [r \in Reqs |-> IdleReq]
    /\ hist = NoHist
    /\ phoneDataCache = None /\ phoneDataExpiry = None /\ forceRefresh = FALSE
    /\ api = NULL /\ pool = NULL /\ fileThere = FALSE /\ caller = NULL
    /\ proc = NULL
    /\ appState = NULL /\ responses = NULL
    /\ rawPhone = NullString /\ formatted = NullString

Init == InitMain

\* app.get("/<endpoint>"): handleTeamPhoneLookup(req, res, TEAM_MAPPING[endpoint])
HandleTeamPhoneLookup(r) ==
    /\ req[r].pc = "idle"
    /\ \E endpoint \in Endpoints :
          req' = [req EXCEPT ![r] = Begin(r, "team", TEAM_MAPPING[endpoint])]
    /\ hist' = [hist EXCEPT !.pendingClear = FALSE]
    /\ UNCHANGED <<now, cache, config, dirVars, normVars, proc, dashVars>>

\* app.get("/health"): directClient.isHealthy(req.id)
HandleHealth(r) ==
    /\ req[r].pc = "idle"
    /\ req' = [req EXCEPT ![r] = Begin(r, "health", NULL)]
    /\ hist' = [hist EXCEPT !.pendingClear = FALSE]
    /\ UNCHANGED <<now, cache, config, dirVars, normVars, proc, dashVars>>

\* app.get("/stats/reset"): dashboard.resetStats(); directClient.clearCaches()
\* (the handler has no await: request and response are one step)
HandleStatsReset ==
    /\ cache' = ClearCaches(cache)
    /\ hist' = [resolved |-> {}, pendingClear |-> TRUE, listFetchStart |-> None]
    /\ UNCHANGED <<now, config, req, dirVars, normVars, proc, dashVars>>

\* mutant of ScheduleExpiry: fifteen minutes from the moment of the write
ScheduleExpiryFromWrite(q, t) == t + cache.schedules.duration

\* cache.schedules.expiry = now + cache.schedules.duration, now being the
\* Date.now() of the first line of getSchedules; t is the time of the write
ScheduleExpiry(q, t) == q.t0 + cache.schedules.duration

\* mutant of SchedulesResponse: a failed fetch empties the slot
SchedulesResponseErrorClears(r) ==
    /\ req[r].pc = "await_schedules"
    /\ \E resp \in ListResponses :
          IF resp.kind = "ok"
          THEN /\ cache' = [cache EXCEPT
                              !.schedules.data = Some(resp.values),
                              !.schedules.expiry = Some(ScheduleExpiry(req[r], now))]
               /\ hist' = [hist EXCEPT !.listFetchStart = Some(req[r].t0)]
               /\ req' = [req EXCEPT ![r] = AfterSchedules(req[r], resp.values)]
          ELSE /\ cache' = ClearCaches(cache)
               /\ hist' = [hist EXCEPT !.listFetchStart = None]
               /\ req' = [req EXCEPT ![r] =
                              AfterSchedulesError(req[r], FetchErrorMessage(resp.kind))]
    /\ UNCHANGED <<now, config, dirVars, normVars, proc, dashVars>>

\* getSchedules: the fetch of the rotation list settles
SchedulesResponse(r) ==
    /\ req[r].pc = "await_schedules"
    /\ \E resp \in ListResponses :
          IF resp.kind = "ok"
          THEN /\ cache' = [cache EXCEPT
                              !.schedules.data = Some(resp.values),
                              !.schedules.expiry = Some(ScheduleExpiry(req[r], now))]
               /\ hist' = [hist EXCEPT !.listFetchStart = Some(req[r].t0)]
               /\ req' = [req EXCEPT ![r] = AfterSchedules(req[r], resp.values)]
          ELSE /\ cache' = cache
               /\ hist' = hist
               /\ req' = [req EXCEPT ![r] =
                              AfterSchedulesError(req[r], FetchErrorMessage(resp.kind))]
    /\ UNCHANGED <<now, config, dirVars, normVars, proc, dashVars>>

\* getOnCallUser: the on-call query settles
OnCallResponse(r) ==
    /\ req[r].pc = "await_oncall"
    /\ \E resp \in OnCallResponses :
          req' = [req EXCEPT ![r] =
              IF resp.kind # "ok"
              THEN Throw(req[r], FetchErrorMessage(resp.kind))
              ELSE IF resp.participants = NullString \/ resp.participants = <<>>
              THEN Throw(req[r], "No on-call user with email found for team")
              ELSE [req[r] EXCEPT !.pc = "await_user",
                                  !.onCallParticipants = Some(resp.participants),
                                  !.participant = resp.participants[1],
                                  !.calls.user = @ + 1]]
    /\ UNCHANGED <<now, cache, config, hist, dirVars, normVars, proc, dashVars>>

\* getOnCallUser: the profile query settles
UserResponse(r) ==
    /\ req[r].pc = "await_user"
    /\ \E resp \in UserResponses :
          req' = [req EXCEPT ![r] =
              IF resp.kind # "ok"
              THEN Throw(req[r], FetchErrorMessage(resp.kind))
              ELSE IF resp.emailAddress = NULL
              THEN Throw(req[r], "No on-call user with email found for team")
              ELSE PhoneLookupEnter(req[r], resp.emailAddress)]
    /\ UNCHANGED <<now, cache, config, hist, dirVars, normVars, proc, dashVars>>

\* dashboard.logger.info(`Found phone number for ${email}: ${phoneNumber}`, ...)
PhoneFoundLog(phoneNumber) == {[by |-> "direct-client", number |-> phoneNumber]}

\* getPhoneNumberByEmail (direct-client): sql.connect settles
SqlConnectResult(r) ==
    /\ req[r].pc = "await_connect"
    /\ \E ok \in BOOLEAN :
          req' = [req EXCEPT ![r] =
              IF ok
              THEN [req[r] EXCEPT !.pc = "await_query", !.poolOpen = TRUE,
                                  !.calls.query = @ + 1]
              ELSE Throw(req[r], "ConnectionError")]
    /\ UNCHANGED <<now, cache, config, hist, dirVars, normVars, proc, dashVars>>

\* getPhoneNumberByEmail (direct-client): the query settles; finally closes the pool
SqlQueryResult(r) ==
    /\ req[r].pc = "await_query"
    /\ \/ req' = [req EXCEPT ![r] = [req[r] EXCEPT !.pc = "closing",
                                                   !.thrown = "RequestError"]]
       \/ \E table \in Tables :
             LET recordset == SqlSelectTop1(table, req[r].email)
                 found == recordset # <<>> /\ Truthy(recordset[1].cellPhone)
             IN  req' = [req EXCEPT ![r] = [req[r] EXCEPT
                     !.pc = "closing",
                     !.record = recordset,
                     !.value = IF found THEN FormatPhone(recordset[1].cellPhone)
                               ELSE NullString,
                     !.logged = IF found
                                THEN PhoneFoundLog(FormatPhone(recordset[1].cellPhone))
                                ELSE {}]]
    /\ UNCHANGED <<now, cache, config, hist, dirVars, normVars, proc, dashVars>>

\* mutant of ReleasePool: the pool is closed at the end of the try block only
ReleasePoolUnlessThrown(q) ==
    IF q.thrown # NULL THEN q ELSE [q EXCEPT !.poolOpen = FALSE]

\* finally { if (pool) await pool.close(); }
ReleasePool(q) == [q EXCEPT !.poolOpen = FALSE]

\* pool.close() settles; getTeamOnCallPhoneNumber step 3 and the handler run
SqlCloseDone(r) ==
    /\ req[r].pc = "closing"
    /\ LET q == ReleasePool(req[r])
           out == IF q.thrown # NULL THEN Throw(q, q.thrown)
                  ELSE IF ~Truthy(q.value)
                  THEN Throw(q, "No phone number found for email")
                  ELSE Return(q, q.value)
       IN  /\ req' = [req EXCEPT ![r] = out]
           /\ hist' = IF out.status = 200
                      THEN [hist EXCEPT !.resolved = @ \cup {q.team}]
                      ELSE hist
    /\ UNCHANGED <<now, cache, config, dirVars, normVars, proc, dashVars>>

\* the response has been sent; the slot serves the next request
Finish(r) ==
    /\ req[r].pc = "done"
    /\ req' = [req EXCEPT ![r] = IdleReq]
    /\ UNCHANGED <<now, cache, config, hist, dirVars, normVars, proc, dashVars>>

\* time passes
Tick ==
    /\ now < MaxTicks * TickMs
    /\ now' = now + TickMs
    /\ UNCHANGED <<mainVars, dirVars, normVars, proc, dashVars>>

Next ==
    \/ \E r \in TeamReqs : HandleTeamPhoneLookup(r)
    \/ \E r \in TeamReqs : HandleHealth(r)
    \/ HandleStatsReset
    \/ \E r \in TeamReqs : SchedulesResponse(r)
    \/ \E r \in TeamReqs : OnCallResponse(r)
    \/ \E r \in TeamReqs : UserResponse(r)
    \/ \E r \in TeamReqs : SqlConnectResult(r)
    \/ \E r \in TeamReqs : SqlQueryResult(r)
    \/ \E r \in TeamReqs : SqlCloseDone(r)
    \/ \E r \in TeamReqs : Finish(r)
    \/ Tick

Spec == Init /\ [][Next]_vars

\* Concurrent readers of the rotation list, clearCaches and the clock.
NextRace ==
    \/ \E r \in Reqs : HandleHealth(r)
    \/ \E r \in Reqs : SchedulesResponse(r)
    \/ \E r \in Reqs : Finish(r)
    \/ HandleStatsReset
    \/ Tick

SpecRace == InitMain /\ [][NextRace]_vars

(***************************************************************************)
(* sql-data.js                                                             *)
(***************************************************************************)
\* const CACHE_DURATION = 60 * 60 * 1000
CACHE_DURATION == 60 * 60 * 1000

\* config.defaultPhoneNumber = process.env.DEFAULT_PHONE_NUMBER || "15555555555"
DefaultPhoneNumber == <<"1", "5", "5", "5", "5", "5", "5", "5", "5", "5", "5">>

\* config.fallback.useTempFile = false, whatever USE_TEMP_FILE says
UseTempFile(envUseTempFile) == FALSE

\* The settings sql-data.js reads from config.js, with the USE_TEMP_FILE of the
\* environment they were loaded from: SQL authentication with and without its
\* credentials, and Windows authentication, which needs none.
DirConfigs ==
    { [envUseTempFile |-> e, useTempFile |-> UseTempFile(e), authMode |-> "sql",
       username |-> u, password |-> u, database |-> TRUE] :
          e \in {"true", "false"}, u \in BOOLEAN }
    \cup
    { [envUseTempFile |-> "false", useTempFile |-> UseTempFile("false"),
       authMode |-> "windows", username |-> FALSE, password |-> FALSE,
       database |-> TRUE] }

Callers == {"c1", "c2"}

\* The e-mails getPhoneNumberByEmail (sql-data) is called with.
DirEmails == Emails \cup {""}

\* One call of getPhoneNumberByEmail or isHealthy (sql-data): where it is, what
\* it was asked, what it answered, and what it touched on the way (fileRead:
\* the CSV file was read; db: the database was contacted).
IdleCaller ==
    [ pc |-> "idle", op |-> NULL, email |-> NULL, t0 |-> 0, result |-> NullString,
      healthy |-> None,
      record |-> None, forced |-> FALSE, fetched |-> FALSE, dbFailed |-> FALSE,
      fileRead |-> FALSE, db |-> FALSE, thrown |-> NULL ]

\* mutant of FindRecord: the e-mails are compared as they are
FindRecordCaseSensitive(rows, email) ==
    LET hits == { i \in 1..Len(rows) : rows[i].email # "" /\ rows[i].email = email }
    IN  IF hits = {} THEN None ELSE Some(rows[Min(hits)])

\* phoneDataCache.find((row) => row.email &&
\*     row.email.toLowerCase() === email.toLowerCase())
FindRecord(rows, email) ==
    LET hits == { i \in 1..Len(rows) :
                    /\ rows[i].email # ""
                    /\ ToLowerCase(rows[i].email) = ToLowerCase(email) }
    IN  IF hits = {} THEN None ELSE Some(rows[Min(hits)])

\* mutant of PhoneOfRecord: the extension itself is handed back
PhoneOfRecordExtension(record) ==
    IF Truthy(record.cellPhone) THEN FormatPhone(record.cellPhone)
    ELSE IF Truthy(record.extension) /\ Truthy(Trim(record.extension))
    THEN Trim(record.extension)
    ELSE NullString

\* getPhoneNumberByEmail (sql-data) from the found record to callback(...)
PhoneOfRecord(record) ==
    IF Truthy(record.cellPhone) THEN FormatPhone(record.cellPhone)
    ELSE IF Truthy(record.extension) /\ Truthy(Trim(record.extension))
    THEN DefaultPhoneNumber
    ELSE NullString

\* getPhoneNumberByEmail (sql-data) once ensurePhoneDataLoaded has returned
LookupInCache(q, rows) ==
    IF rows = None \/ rows = Some(<<>>)
    THEN [q EXCEPT !.pc = "done", !.result = NullString]
    ELSE LET record == FindRecord(rows[1], q.email)
         IN  IF record = None
             THEN [q EXCEPT !.pc = "done", !.result = NullString]
             ELSE [q EXCEPT !.pc = "done", !.record = record,
                            !.result = PhoneOfRecord(record[1])]

\* mutant of FetchPhoneDataCatch: after the database failed the file is read
FetchPhoneDataCatchThenFile == [rows |-> Some(<<>>), thrown |-> NULL, fileRead |-> TRUE]

\* fetchPhoneData: catch (err) { logError(...); return []; }
FetchPhoneDataCatch == [rows |-> Some(<<>>), thrown |-> NULL, fileRead |-> FALSE]

\* mutant of Loaded: the empty result of a failed refresh is not stored
LoadedFailureNotCached(c, fetch, failed) ==
    IF fetch.thrown # NULL \/ failed
    THEN /\ caller' = [caller EXCEPT ![c] =
                          [@ EXCEPT !.pc = "done", !.result = NullString,
                                    !.fetched = TRUE,
                                    !.dbFailed = failed, !.thrown = fetch.thrown]]
         /\ UNCHANGED <<phoneDataCache, phoneDataExpiry>>
    ELSE /\ phoneDataCache' = fetch.rows
         /\ phoneDataExpiry' = Some(caller[c].t0 + CACHE_DURATION)
         /\ caller' = [caller EXCEPT ![c] =
                          LookupInCache([@ EXCEPT !.fetched = TRUE, !.dbFailed = failed,
                                                  !.fileRead = fetch.fileRead],
                                        fetch.rows)]

\* ensurePhoneDataLoaded after fetchPhoneData settled with `fetch`, then the
\* rest of getPhoneNumberByEmail; its own catch turns an error into callback(null)
Loaded(c, fetch, failed) ==
    IF fetch.thrown # NULL
    THEN /\ caller' = [caller EXCEPT ![c] =
                          [@ EXCEPT !.pc = "done", !.result = NullString,
                                    !.dbFailed = failed, !.thrown = fetch.thrown]]
         /\ UNCHANGED <<phoneDataCache, phoneDataExpiry>>
    ELSE /\ phoneDataCache' = fetch.rows
         /\ phoneDataExpiry' = Some(caller[c].t0 + CACHE_DURATION)
         /\ caller' = [caller EXCEPT ![c] =
                          LookupInCache([@ EXCEPT !.fetched = TRUE, !.dbFailed = failed,
                                                  !.fileRead = fetch.fileRead],
                                        fetch.rows)]

InitDir ==
    /\ now = 0
    /\ phoneDataCache = None
    /\ phoneDataExpiry = None
    /\ forceRefresh = FALSE
    /\ api \in { [present |-> p, forceRefresh |-> FALSE] : p \in BOOLEAN }
    /\ pool = NULL
    /\ fileThere \in BOOLEAN
    /\ config \in DirConfigs
    \* an installation that sets USE_TEMP_FILE=true has the file in place
    /\ config.envUseTempFile = "true" => fileThere
    /\ caller = [c \in Callers |-> IdleCaller]
    /\ cache = NULL /\ req = NULL /\ hist = NULL
    /\ rawPhone = NullString /\ formatted = NullString
    /\ proc = NULL
    /\ appState = NULL /\ responses = NULL

\* getPhoneNumberByEmail(email, callback) up to the import in ensurePhoneDataLoaded
GetPhoneNumberByEmail(c) ==
    /\ caller[c].pc = "idle"
    /\ \E email \in DirEmails :
          caller' = [caller EXCEPT ![c] =
                        [IdleCaller EXCEPT !.pc = "await_import", !.op = "lookup",
                                           !.email = email, !.t0 = now]]
    /\ UNCHANGED <<now, config, phoneDataCache, phoneDataExpiry, forceRefresh, api,
                   pool, fileThere, mainVars, normVars, proc, dashVars>>
    /\ UNCHANGED cache

\* the flag ensurePhoneDataLoaded works with after its import settled
SyncedFlag == IF api.present THEN api.forceRefresh ELSE forceRefresh

\* ensurePhoneDataLoaded from the settled import on; fetchPhoneData up to its
\* first request to the database
ImportSettles(c) ==
    /\ caller[c].pc = "await_import"
    /\ LET flag == SyncedFlag
           q == [caller[c] EXCEPT !.forced = flag]
       IN  IF /\ ~flag
              /\ phoneDataCache # None
              /\ phoneDataExpiry # None
              /\ q.t0 < phoneDataExpiry[1]
           THEN /\ forceRefresh' = flag
                /\ caller' = [caller EXCEPT ![c] = LookupInCache(q, phoneDataCache)]
                /\ UNCHANGED <<phoneDataCache, phoneDataExpiry, pool>>
           ELSE /\ forceRefresh' = FALSE
                /\ IF config.useTempFile /\ fileThere
                   THEN \E rows \in Tables :
                           /\ phoneDataCache' = Some(rows)
                           /\ phoneDataExpiry' = Some(q.t0 + CACHE_DURATION)
                           /\ caller' = [caller EXCEPT ![c] =
                                 LookupInCache([q EXCEPT !.fetched = TRUE,
                                                         !.fileRead = TRUE], Some(rows))]
                           /\ pool' = pool
                   ELSE IF ~config.username \/ ~config.password \/ ~config.database
                   THEN /\ phoneDataCache' = Some(<<>>)
                        /\ phoneDataExpiry' = Some(q.t0 + CACHE_DURATION)
                        /\ caller' = [caller EXCEPT ![c] =
                              LookupInCache([q EXCEPT !.fetched = TRUE], Some(<<>>))]
                        /\ pool' = pool
                   ELSE /\ caller' = [caller EXCEPT ![c] =
                              [q EXCEPT !.db = TRUE,
                                        !.pc = IF pool = NULL THEN "await_connect"
                                               ELSE "await_query"]]
                        /\ UNCHANGED <<phoneDataCache, phoneDataExpiry, pool>>
    /\ UNCHANGED <<now, config, api, fileThere, mainVars, normVars, proc, dashVars>>

\* initSqlPool: sql.connect settles
PoolConnectSettles(c) ==
    /\ caller[c].pc = "await_connect"
    /\ \/ /\ pool' = "open"
          /\ caller' = [caller EXCEPT ![c] = [@ EXCEPT !.pc = "await_query"]]
          /\ UNCHANGED <<phoneDataCache, phoneDataExpiry>>
       \/ /\ pool' = pool
          /\ Loaded(c, FetchPhoneDataCatch, TRUE)
    /\ UNCHANGED <<now, config, forceRefresh, api, fileThere, mainVars, normVars, proc, dashVars>>

\* fetchPhoneData: pool.request().query(...) settles
QuerySettles(c) ==
    /\ caller[c].pc = "await_query"
    /\ \/ Loaded(c, FetchPhoneDataCatch, TRUE)
       \/ \E rows \in Tables :
             Loaded(c, [rows |-> Some(rows), thrown |-> NULL, fileRead |-> FALSE], FALSE)
    /\ UNCHANGED <<now, config, forceRefresh, api, pool, fileThere, mainVars, normVars, proc, dashVars>>

\* isHealthy (sql-data) up to its first request to the database, or to its end
IsHealthy(c) ==
    /\ caller[c].pc = "idle"
    /\ LET q == [IdleCaller EXCEPT !.op = "health", !.t0 = now]
       IN  caller' = [caller EXCEPT ![c] =
              IF config.useTempFile
              THEN [q EXCEPT !.pc = "done", !.healthy = Some(fileThere)]
              ELSE IF config.username /\ config.password /\ config.database
              THEN [q EXCEPT !.db = TRUE,
                             !.pc = IF pool = NULL THEN "health_connect"
                                    ELSE "health_query"]
              ELSE [q EXCEPT !.pc = "done", !.thrown = "ReferenceError"]]
    /\ UNCHANGED <<now, config, phoneDataCache, phoneDataExpiry, forceRefresh, api,
                   pool, fileThere, mainVars, normVars, proc, dashVars>>
    /\ UNCHANGED cache

\* isHealthy (sql-data): initSqlPool settles
HealthConnectSettles(c) ==
    /\ caller[c].pc = "health_connect"
    /\ \/ /\ pool' = "open"
          /\ caller' = [caller EXCEPT ![c] = [@ EXCEPT !.pc = "health_query"]]
       \/ /\ pool' = pool
          /\ caller' = [caller EXCEPT ![c] =
                [@ EXCEPT !.pc = "done", !.healthy = Some(FALSE), !.dbFailed = TRUE]]
    /\ UNCHANGED <<now, config, phoneDataCache, phoneDataExpiry, forceRefresh, api,
                   fileThere, mainVars, normVars, proc, dashVars>>
    /\ UNCHANGED cache

\* isHealthy (sql-data): SELECT 1 AS healthCheck settles
HealthQuerySettles(c) ==
    /\ caller[c].pc = "health_query"
    /\ \E ok \in BOOLEAN :
          caller' = [caller EXCEPT ![c] =
              [@ EXCEPT !.pc = "done", !.healthy = Some(ok), !.dbFailed = ~ok]]
    /\ UNCHANGED <<now, config, phoneDataCache, phoneDataExpiry, forceRefresh, api,
                   pool, fileThere, mainVars, normVars, proc, dashVars>>
    /\ UNCHANGED cache

\* callback(...) has been called; the slot serves the next call
CallerFinish(c) ==
    /\ caller[c].pc = "done"
    /\ caller' = [caller EXCEPT ![c] = IdleCaller]
    /\ UNCHANGED <<now, config, phoneDataCache, phoneDataExpiry, forceRefresh, api,
                   pool, fileThere, mainVars, normVars, proc, dashVars>>
    /\ UNCHANGED cache

\* ops-jira-api.js: the "clear caches" operation sets its forceRefresh flag
ApiSetForceRefresh ==
    /\ api.present
    /\ ~api.forceRefresh
    /\ api' = [api EXCEPT !.forceRefresh = TRUE]
    /\ UNCHANGED <<now, config, phoneDataCache, phoneDataExpiry, forceRefresh, pool,
                   fileThere, caller, mainVars, normVars, proc, dashVars>>
    /\ UNCHANGED cache

\* time passes
DirTick ==
    /\ now < MaxDirTicks * DirTickFactor * TickMs
    /\ now' = now + DirTickFactor * TickMs
    /\ UNCHANGED <<mainVars, dirVars, normVars, proc, dashVars>>

NextDir ==
    \/ \E c \in Callers : GetPhoneNumberByEmail(c)
    \/ \E c \in Callers : ImportSettles(c)
    \/ \E c \in Callers : PoolConnectSettles(c)
    \/ \E c \in Callers : QuerySettles(c)
    \/ \E c \in Callers : IsHealthy(c)
    \/ \E c \in Callers : HealthConnectSettles(c)
    \/ \E c \in Callers : HealthQuerySettles(c)
    \/ \E c \in Callers : CallerFinish(c)
    \/ ApiSetForceRefresh
    \/ DirTick

SpecDir == InitDir /\ [][NextDir]_vars

(***************************************************************************)
(* server.js as a process: the HTTP server, the handlers of signals and of *)
(* uncaught errors, the Ctrl+C key of the dashboard, gracefulShutdown.     *)
(***************************************************************************)
\* if (!process.env.NODE_ENV) process.env.NODE_ENV = "production"
NodeEnv(env) == IF env = NULL THEN "production" ELSE env

\* The process: nodeEnv is process.env.NODE_ENV; rawMode says the dashboard
\* put stdin into raw mode (stdin is a TTY); listening and open are the HTTP
\* server and its open requests; shuttingDown is server.shuttingDown;
\* forceExit is the 10 s timer; steps lists what the shutdown did, in order;
\* event, events, ctrlC, errors and shutdownCalls record what the process was
\* sent, what it logged as an error and how often gracefulShutdown was called.
Running(env, isTTY) ==
    [ nodeEnv |-> NodeEnv(env), rawMode |-> isTTY, listening |-> TRUE, open |-> 0,
      shuttingDown |-> FALSE, forceExit |-> FALSE, pc |-> "serving",
      exitCode |-> None, steps |-> <<>>, event |-> NULL, events |-> 0,
      ctrlC |-> FALSE, errors |-> 0, shutdownCalls |-> 0 ]

\* mutant of GracefulShutdown: the 10 s timer is not armed
GracefulShutdownNoTimer(p) ==
    IF p.shuttingDown
    THEN [p EXCEPT !.shutdownCalls = @ + 1]
    ELSE [p EXCEPT !.shutdownCalls = @ + 1,
                   !.shuttingDown = TRUE,
                   !.steps = @ \o <<"closeSqlConnections", "server.close">>,
                   !.listening = FALSE,
                   !.pc = "closing"]

\* mutant of GracefulShutdown: no test of server.shuttingDown
GracefulShutdownUnguarded(p) ==
    [p EXCEPT !.shutdownCalls = @ + 1,
              !.shuttingDown = TRUE,
              !.forceExit = TRUE,
              !.steps = @ \o <<"closeSqlConnections", "server.close">>,
              !.listening = FALSE,
              !.pc = "closing"]

\* gracefulShutdown(signal, error) up to the pending server.close(): step 1
\* awaits closeSqlConnections, which settles without I/O, step 2 calls
\* server.close
GracefulShutdown(p) ==
    IF p.shuttingDown
    THEN [p EXCEPT !.shutdownCalls = @ + 1]
    ELSE [p EXCEPT !.shutdownCalls = @ + 1,
                   !.shuttingDown = TRUE,
                   !.forceExit = TRUE,
                   !.steps = @ \o <<"closeSqlConnections", "server.close">>,
                   !.listening = FALSE,
                   !.pc = "closing"]

\* mutant of UncaughtExceptionHandler: fatal in every environment
UncaughtExceptionAlwaysFatal(p) ==
    GracefulShutdown([p EXCEPT !.errors = @ + 1])

\* process.on("uncaughtException", ...)
UncaughtExceptionHandler(p) ==
    LET p1 == [p EXCEPT !.errors = @ + 1]
    IN  IF p.nodeEnv = "production" THEN GracefulShutdown(p1) ELSE p1

\* process.on("unhandledRejection", ...)
UnhandledRejectionHandler(p) ==
    LET p1 == [p EXCEPT !.errors = @ + 1]
    IN  IF p.nodeEnv = "production" THEN GracefulShutdown(p1) ELSE p1

\* process.stdin.on("data", ...) of the dashboard for the key "\u0003"
KeypressCtrlC(p) == [p EXCEPT !.pc = "exited", !.exitCode = Some(0)]

\* an event reaches the process
Received(p, name) == [p EXCEPT !.event = name, !.events = @ + 1]

InitShutdown ==
    /\ proc \in { Running(env, isTTY) :
                    env \in {NULL, "production", "development"}, isTTY \in BOOLEAN }
    /\ now = 0
    /\ cache = NULL /\ config = NULL /\ req = NULL /\ hist = NULL
    /\ phoneDataCache = None /\ phoneDataExpiry = None /\ forceRefresh = FALSE
    /\ api = NULL /\ pool = NULL /\ fileThere = FALSE /\ caller = NULL
    /\ rawPhone = NullString /\ formatted = NullString
    /\ appState = NULL /\ responses = NULL

\* the HTTP server accepts a request
AcceptRequest ==
    /\ proc.pc # "exited"
    /\ proc.listening
    /\ proc.open < MaxOpenRequests
    /\ proc' = [proc EXCEPT !.open = @ + 1]
    /\ UNCHANGED <<now, mainVars, dirVars, normVars, dashVars>>

\* a request has been answered and its connection is closed
CompleteRequest ==
    /\ proc.pc # "exited"
    /\ proc.open > 0
    /\ proc' = [proc EXCEPT !.open = @ - 1]
    /\ UNCHANGED <<now, mainVars, dirVars, normVars, dashVars>>

\* process.on("SIGTERM" / "SIGINT", () => gracefulShutdown(...)): kill -TERM, kill -INT
Signal ==
    /\ proc.pc # "exited"
    /\ proc.events < MaxEvents
    /\ \E sig \in {"SIGTERM", "SIGINT"} :
          proc' = GracefulShutdown(Received(proc, sig))
    /\ UNCHANGED <<now, mainVars, dirVars, normVars, dashVars>>

\* Ctrl+C on the terminal: in raw mode the key arrives as data on stdin,
\* otherwise the terminal sends SIGINT
CtrlC ==
    /\ proc.pc # "exited"
    /\ proc.events < MaxEvents
    /\ LET p == [Received(proc, "Ctrl+C") EXCEPT !.ctrlC = TRUE]
       IN  proc' = IF proc.rawMode THEN KeypressCtrlC(p) ELSE GracefulShutdown(p)
    /\ UNCHANGED <<now, mainVars, dirVars, normVars, dashVars>>

\* an exception reaches the top of the stack
UncaughtException ==
    /\ proc.pc # "exited"
    /\ proc.events < MaxEvents
    /\ proc' = UncaughtExceptionHandler(Received(proc, "uncaughtException"))
    /\ UNCHANGED <<now, mainVars, dirVars, normVars, dashVars>>

\* a promise is rejected and nothing handles it
UnhandledRejection ==
    /\ proc.pc # "exited"
    /\ proc.events < MaxEvents
    /\ proc' = UnhandledRejectionHandler(Received(proc, "unhandledRejection"))
    /\ UNCHANGED <<now, mainVars, dirVars, normVars, dashVars>>

\* server.close's callback: no connection is left; clearTimeout(forceExit)
\* and the 500 ms timer before exit
HttpServerClosed ==
    /\ proc.pc = "closing"
    /\ proc.open = 0
    /\ proc' = [proc EXCEPT !.pc = "goodbye", !.forceExit = FALSE,
                            !.steps = @ \o <<"drained">>]
    /\ UNCHANGED <<now, mainVars, dirVars, normVars, dashVars>>

\* "Shutdown complete. Goodbye!": process.exit(0)
Goodbye ==
    /\ proc.pc = "goodbye"
    /\ proc' = [proc EXCEPT !.pc = "exited", !.exitCode = Some(0),
                            !.steps = @ \o <<"exit">>]
    /\ UNCHANGED <<now, mainVars, dirVars, normVars, dashVars>>

\* the 10 s timer fires: process.exit(1)
ForceExit ==
    /\ proc.pc = "closing"
    /\ proc.forceExit
    /\ proc' = [proc EXCEPT !.pc = "exited", !.exitCode = Some(1),
                            !.steps = @ \o <<"exit">>]
    /\ UNCHANGED <<now, mainVars, dirVars, normVars, dashVars>>

NextShutdown ==
    \/ AcceptRequest
    \/ CompleteRequest
    \/ Signal
    \/ CtrlC
    \/ UncaughtException
    \/ UnhandledRejection
    \/ HttpServerClosed
    \/ Goodbye
    \/ ForceExit

SpecShutdown == InitShutdown /\ [][NextShutdown]_vars

\* The timers of the shutdown fire and the callback of server.close runs once
\* no connection is left; nothing obliges an open request to complete.
SpecShutdownLive ==
    /\ InitShutdown
    /\ [][NextShutdown]_vars
    /\ WF_vars(HttpServerClosed)
    /\ WF_vars(Goodbye)
    /\ WF_vars(ForceExit)

(***************************************************************************)
(* Properties of Spec and SpecRace.                                        *)
(***************************************************************************)
TeamDone(r) == req[r].pc = "done" /\ req[r].op = "team"

\* r enters its handler in this step (and so reads the rotation list)
Enters(r) == req[r].pc = "idle" /\ req'[r].pc # "idle"

\* the fetch of the rotation list by r settles in this step
ListSettles(r) == req[r].pc = "await_schedules" /\ req'[r].pc # "await_schedules"

\* C1: a resolution made warm (the same rotation name was resolved before, no
\* clearCaches since, inside the 15-minute and the 1-hour window) issues no
\* listRotations request and opens no connection to the directory source.
C1_WarmCallIssuesNoUpstreamCall ==
    \A r \in Reqs :
        (req[r].warm /\ req[r].team \in hist.resolved)
            => req[r].calls.list = 0 /\ req[r].calls.connect = 0

\* C2: a getSchedules call that finds the schedule slot expired issues exactly
\* one listRotations request; when the list arrives the slot is replaced by
\* exactly that list with expiry = the call's now + 15 minutes; a call that
\* finds the slot fresh issues none and is served the cached list.
C2_ExpiredScheduleSlotRefetchedOnce ==
    [][\A r \in Reqs :
          /\ (Enters(r) /\ SlotState(cache.schedules, now) = "expired")
                => /\ req'[r].pc = "await_schedules"
                   /\ req'[r].calls.list = 1
                   /\ req'[r].t0 = now
                   /\ cache' = cache
          /\ (ListSettles(r) /\ req'[r].schedules # None)
                => /\ req'[r].calls.list = 1
                   /\ cache'.schedules =
                        [data |-> req'[r].schedules,
                         expiry |-> Some(req[r].t0 + 15 * 60 * 1000),
                         duration |-> 15 * 60 * 1000]
                   /\ SlotState(cache'.schedules, req[r].t0 + 15 * 60 * 1000 - 1) = "fresh"
          /\ (Enters(r) /\ SlotState(cache.schedules, now) = "fresh")
                => /\ req'[r].calls.list = 0
                   /\ req'[r].pc # "await_schedules"
                   /\ req'[r].schedules = cache.schedules.data
                   /\ cache' = cache
      ]_vars

\* C2 witness: a call that found the slot expired has refilled it
C2_Witness ==
    \E r \in Reqs :
        /\ req[r].found = "expired"
        /\ req[r].schedules # None
        /\ req[r].calls.list = 1
        /\ cache.schedules.data = req[r].schedules
        /\ cache.schedules.expiry = Some(req[r].t0 + ScheduleDuration)

\* C3: the first read of the rotation list after clearCaches calls the roster
\* service, whatever was in flight when the caches were cleared.
C3_ReadAfterClearFetches ==
    [][\A r \in Reqs :
          (Enters(r) /\ hist.pendingClear /\ ~JiraIncomplete(config.jira))
              => req'[r].calls.list = 1
      ]_vars

NotFoundMessages ==
    { "No schedule found for team",
      "No on-call user with email found for team",
      "No phone number found for email" }

\* C5: a resolution that reached the directory database and got no record
\* from it, the connect or the query having thrown included, ends with the
\* no-number outcome and not with the error of the database.
C5_DatabaseErrorNotPropagated ==
    \A r \in Reqs :
        (TeamDone(r) /\ req[r].calls.connect > 0 /\ req[r].record = None)
            => req[r].thrown = "No phone number found for email"

\* C6: a resolution that ends with a not-found outcome is answered 404, one
\* that ends with an upstream or configuration failure is answered 500.
C6_NotFoundAndUpstreamErrorDistinct ==
    \A r \in Reqs :
        (TeamDone(r) /\ req[r].thrown # NULL)
            => IF req[r].thrown \in NotFoundMessages
               THEN req[r].status = 404
               ELSE req[r].status = 500

\* C7: a resolution whose rotation was found, whose on-call profile has an
\* e-mail and whose directory record for that e-mail (up to case) has a cell
\* phone of exactly 10 digits answers "1" followed by those digits.
C7_EndToEndSuccess ==
    \A r \in Reqs :
        (/\ TeamDone(r)
         /\ req[r].schedule # NULL
         /\ req[r].email # NULL
         /\ req[r].record # None
         /\ ToLowerCase(req[r].record[1].email) = ToLowerCase(req[r].email)
         /\ Len(DigitsOf(req[r].record[1].cellPhone)) = 10)
            => /\ req[r].status = 200
               /\ req[r].body = <<"1">> \o DigitsOf(req[r].record[1].cellPhone)

\* C7 witness: helpdesk / a@x.com / 555-123-4567 answered 15551234567
C7_Witness ==
    \E r \in Reqs :
        /\ TeamDone(r)
        /\ req[r].team = "Help-Desk-schedule"
        /\ req[r].email = "a@x.com"
        /\ req[r].record # None
        /\ req[r].record[1].cellPhone = Cell10
        /\ req[r].status = 200
        /\ req[r].body = <<"1", "5", "5", "5", "1", "2", "3", "4", "5", "6", "7">>

\* C10: within a resolution the on-call query is issued only once a rotation
\* is resolved, the profile query only once a participant was returned, the
\* directory connection only once a profile e-mail was obtained; while a step
\* is pending, and after a step failed or found nothing, no call of a later
\* step has been issued.
C10_StepsStrictlySequential ==
    \A r \in Reqs :
        LET q == req[r] IN
        /\ q.calls.oncall > 0 => q.schedule # NULL
        /\ q.calls.user > 0 => q.calls.oncall > 0 /\ q.participant # NULL
        /\ q.calls.connect > 0 => q.calls.user > 0 /\ q.email # NULL
        /\ q.calls.query > 0 => q.calls.connect > 0 /\ q.email # NULL
        /\ q.pc = "await_schedules"
              => q.calls.oncall + q.calls.user + q.calls.connect + q.calls.query = 0
        /\ q.pc = "await_oncall" => q.calls.user + q.calls.connect + q.calls.query = 0
        /\ q.pc = "await_user" => q.calls.connect + q.calls.query = 0
        /\ q.pc = "await_connect" => q.calls.query = 0
        /\ q.schedule = NULL
              => q.calls.oncall + q.calls.user + q.calls.connect + q.calls.query = 0
        /\ q.participant = NULL => q.calls.user + q.calls.connect + q.calls.query = 0
        /\ q.email = NULL => q.calls.connect + q.calls.query = 0

\* C10 witness: a resolution ended at the on-call step (nobody on call) with
\* no profile query and no directory connection issued
C10_Witness ==
    \E r \in Reqs :
        /\ TeamDone(r)
        /\ req[r].calls.oncall = 1
        /\ req[r].participant = NULL
        /\ req[r].thrown = "No on-call user with email found for team"
        /\ req[r].calls.user = 0
        /\ req[r].calls.connect = 0

\* The stage of a resolution that issued its last upstream request.
Stages == {"list", "oncall", "profile", "directory"}

FailedStage(q) ==
    IF q.calls.connect > 0 THEN "directory"
    ELSE IF q.calls.user > 0 THEN "profile"
    ELSE IF q.calls.oncall > 0 THEN "oncall"
    ELSE "list"

\* The error messages a failed upstream request of a stage ends with.
StageFailures(stage) ==
    CASE stage = "list" ->
           { FetchErrorMessage(x.kind) : x \in { y \in ListResponses : y.kind # "ok" } }
      [] stage = "oncall" ->
           { FetchErrorMessage(x.kind) : x \in { y \in OnCallResponses : y.kind # "ok" } }
      [] stage = "profile" ->
           { FetchErrorMessage(x.kind) : x \in { y \in UserResponses : y.kind # "ok" } }
      [] stage = "directory" -> {"ConnectionError", "RequestError"}

UpstreamFailures == UNION { StageFailures(stage) : stage \in Stages }

\* C11: a resolution issues each upstream request at most once, and when one
\* of them fails the error the resolution ends with is one of the failed
\* stage and of no other stage.
C11_NoRetryAndFailingStageNamed ==
    \A r \in Reqs :
        /\ req[r].calls.list <= 1
        /\ req[r].calls.oncall <= 1
        /\ req[r].calls.user <= 1
        /\ req[r].calls.connect <= 1
        /\ req[r].calls.query <= 1
        /\ (TeamDone(r) /\ req[r].thrown \in UpstreamFailures)
              => /\ req[r].thrown \in StageFailures(FailedStage(req[r]))
                 /\ \A stage \in Stages \ {FailedStage(req[r])} :
                       req[r].thrown \notin StageFailures(stage)

\* C12: every resolution that found a rotation has issued its own on-call
\* query, and every one that got a participant its own profile query, also
\* when the rotation list came from the warm cache.
C12_OnCallAndProfileNeverCached ==
    \A r \in Reqs :
        req[r].op = "team" =>
            /\ req[r].schedule # NULL => req[r].calls.oncall = 1
            /\ req[r].participant # NULL => req[r].calls.oncall = 1 /\ req[r].calls.user = 1
            /\ req[r].email # NULL => req[r].calls.oncall = 1 /\ req[r].calls.user = 1

\* C12 witness: a warm resolution (no listRotations request) that issued both
\* its on-call query and its profile query
C12_Witness ==
    \E r \in Reqs :
        /\ req[r].op = "team"
        /\ req[r].warm
        /\ req[r].found = "fresh"
        /\ req[r].calls.list = 0
        /\ req[r].calls.oncall = 1
        /\ req[r].calls.user = 1

C15_RecordToNumber ==
    \A r \in Reqs :
        (TeamDone(r) /\ req[r].record # None /\ req[r].thrown # "RequestError") =>
            LET row == req[r].record[1]
            IN  req[r].value =
                    IF Truthy(row.cellPhone) THEN ReferenceNormalize(row.cellPhone)
                    ELSE IF Truthy(row.extension) /\ Truthy(Trim(row.extension))
                    THEN DefaultPhoneNumber
                    ELSE NullString

\* C16: no step of an isHealthy call changes a cache slot.
C16_HealthLeavesCacheAlone ==
    [][\A r \in Reqs :
          ((req[r].op = "health" \/ req'[r].op = "health") /\ req'[r] # req[r])
              => cache' = cache
      ]_vars

\* C18: with a roster setting missing no request is sent to the roster
\* service and a resolution ends with the configuration error; with the
\* database name or, in credential mode, the username or password missing no
\* connection to the database is attempted.
C18_ConfigurationErrorSendsNothing ==
    \A r \in Reqs :
        /\ JiraIncomplete(config.jira) =>
              /\ req[r].calls.list = 0
              /\ req[r].calls.oncall = 0
              /\ req[r].calls.user = 0
              /\ req[r].pc \in {"idle", "done"}
              /\ TeamDone(r) => req[r].thrown = "Incomplete Jira API configuration"
        /\ (\/ ~config.database
            \/ config.authMode # "windows" /\ (~config.username \/ ~config.password)) =>
              /\ req[r].calls.connect = 0
              /\ req[r].calls.query = 0
              /\ ~req[r].poolOpen
              /\ req[r].email # NULL =>
                    /\ req[r].pc = "done"
                    /\ req[r].thrown \in
                          { "SQL authentication requires username and password",
                            "SQL database name is required" }

\* C18 witness: a resolution ended with the configuration error of the roster
\* settings, no request sent
C18_Witness ==
    \E r \in Reqs :
        /\ TeamDone(r)
        /\ ~config.jira["apiToken"]
        /\ req[r].thrown = "Incomplete Jira API configuration"
        /\ req[r].calls.list = 0

\* C20: a request that is idle or done holds no open pool, and an open pool
\* belongs to a request that connected once and is querying or closing.
C20_PoolReleasedOnEveryPath ==
    \A r \in Reqs :
        /\ req[r].pc \in {"idle", "done"} => ~req[r].poolOpen
        /\ req[r].poolOpen =>
              /\ req[r].pc \in {"await_query", "closing"}
              /\ req[r].calls.connect = 1

\* C20 witness: a lookup whose query threw has ended with its pool closed
C20_Witness ==
    \E r \in Reqs :
        /\ TeamDone(r)
        /\ req[r].calls.query = 1
        /\ req[r].thrown = "RequestError"
        /\ ~req[r].poolOpen

\* C23: the authentication mode follows config.sql.authMode alone. In windows
\* mode the configuration handed to connect carries neither user nor
\* password, whether or not they are configured, and the lookup is not
\* refused for missing credentials; in credential mode it carries both, and
\* with either missing the lookup fails without a connect.
C23_AuthModeSelectsCredentials ==
    \A r \in TeamReqs :
        req[r].email # NULL =>
            IF config.authMode = "windows"
            THEN /\ req[r].thrown # "SQL authentication requires username and password"
                 /\ config.database =>
                       /\ req[r].calls.connect = 1
                       /\ req[r].sqlConfig # None
                       /\ ~req[r].sqlConfig[1].user
                       /\ ~req[r].sqlConfig[1].password
                       /\ req[r].sqlConfig[1].trustedConnection
            ELSE IF config.username /\ config.password
            THEN config.database =>
                       /\ req[r].calls.connect = 1
                       /\ req[r].sqlConfig # None
                       /\ req[r].sqlConfig[1].user
                       /\ req[r].sqlConfig[1].password
                       /\ ~req[r].sqlConfig[1].trustedConnection
            ELSE /\ req[r].thrown = "SQL authentication requires username and password"
                 /\ req[r].calls.connect = 0
                 /\ req[r].sqlConfig = None
                 /\ req[r].status = 500

\* C23 witness: in windows mode with a username and a password configured a
\* resolution connected without them and answered 200
C23_Witness ==
    \E r \in TeamReqs :
        /\ config.authMode = "windows"
        /\ config.username /\ config.password
        /\ req[r].pc = "done"
        /\ req[r].status = 200
        /\ req[r].sqlConfig # None
        /\ ~req[r].sqlConfig[1].user

\* C24: no log entry written for a resolution shows more than 4 digits of
\* the phone number.
C24_LogsShowLastFourDigitsOnly ==
    \A r \in TeamReqs :
        \A entry \in req[r].logged : Len(StripNonDigits(entry.number)) <= 4

\* C29: the date sent with an on-call query is the UTC midnight that begins
\* the day of the query (a whole number of days, at or before the instant of
\* the query and less than a day before it), and the participant used is the
\* first entry of the list in the answer.
C29_OnCallDateIsUtcMidnight ==
    [][\A r \in TeamReqs :
          /\ (req[r].calls.oncall = 0 /\ req'[r].calls.oncall = 1) =>
                /\ req'[r].date # None
                /\ req'[r].date[1] % DayMs = 0
                /\ req'[r].date[1] <= WallClock(now)
                /\ WallClock(now) < req'[r].date[1] + DayMs
          /\ (req[r].pc = "await_oncall" /\ req'[r].pc = "await_user") =>
                /\ req'[r].onCallParticipants # None
                /\ Len(req'[r].onCallParticipants[1]) > 0
                /\ req'[r].participant = req'[r].onCallParticipants[1][1]
                /\ req'[r].date = req[r].date
      ]_vars

\* C29 witness: a resolution made after midnight, not at midnight, sent the
\* midnight of its day and answered 200
C29_Witness ==
    \E r \in TeamReqs :
        /\ req[r].pc = "done"
        /\ req[r].status = 200
        /\ req[r].date # None
        /\ req[r].date[1] > 0
        /\ req[r].date[1] < WallClock(req[r].t0)
        /\ Len(req[r].onCallParticipants[1]) = 2
        /\ req[r].participant = "p2"

\* getSchedules called for r ends with an error in this step
ListFails(r) ==
    /\ Enters(r) \/ ListSettles(r)
    /\ req'[r].pc = "done"
    /\ req'[r].schedules = None

\* C33: a getSchedules that ends with an error leaves both cache slots as
\* they were and serves nothing; a resolution answers 500 with the error's
\* message (a health probe answers unhealthy); and every call that finds the
\* slot not fresh, with the settings complete, sends the request again.
C33_FailedRefreshLeavesSlot ==
    [][\A r \in TeamReqs :
          /\ ListFails(r) =>
                /\ cache' = cache
                /\ req'[r].op = "team" =>
                      /\ req'[r].thrown \in
                            { "Incomplete Jira API configuration", "request failed",
                              "HTTP error", "Invalid response format from Jira API" }
                      /\ req'[r].status = 500
                      /\ req'[r].body = <<req'[r].thrown>>
                /\ req'[r].op = "health" => req'[r].body = <<"unhealthy">>
          /\ (/\ Enters(r)
              /\ ~Fresh(cache.schedules, now)
              /\ ~JiraIncomplete(config.jira)) =>
                /\ req'[r].pc = "await_schedules"
                /\ req'[r].calls.list = 1
      ]_vars

\* C33 witness: a resolution found an expired list, its refresh failed, it
\* answered 500 and the expired list is still in the slot
C33_Witness ==
    \E r \in TeamReqs :
        /\ req[r].pc = "done"
        /\ req[r].op = "team"
        /\ req[r].found = "expired"
        /\ req[r].schedules = None
        /\ req[r].status = 500
        /\ cache.schedules.data # None
        /\ cache.schedules.expiry # None
        /\ cache.schedules.expiry[1] <= now

(***************************************************************************)
(* Properties of SpecRace.                                                 *)
(***************************************************************************)
\* a slot with neither data nor expiry
SlotEmpty(slot) == slot.data = None /\ slot.expiry = None

\* a slot with both data and expiry
SlotComplete(slot) == slot.data # None /\ slot.expiry # None

\* the rotation lists an upstream response can carry
ListSnapshots == { Some(resp.values) : resp \in { x \in ListResponses : x.kind = "ok" } }

\* C21: whatever the interleaving of refills and clearCaches, each cache slot
\* is empty (no data, no expiry) or complete (data and expiry), and every
\* change of the schedule slot is either a clear or the write of one refill:
\* the whole list of that refill's response with that refill's expiry.
C21_SlotEmptyOrComplete ==
    /\ [](/\ SlotEmpty(cache.schedules) \/ SlotComplete(cache.schedules)
          /\ SlotEmpty(cache.phoneData) \/ SlotComplete(cache.phoneData))
    /\ [][cache'.schedules # cache.schedules =>
            \/ SlotEmpty(cache'.schedules)
            \/ \E r \in Reqs :
                  /\ req[r].pc = "await_schedules"
                  /\ req'[r].pc = "done"
                  /\ cache'.schedules.data \in ListSnapshots
                  /\ cache'.schedules.data = req'[r].schedules
                  /\ cache'.schedules.expiry = Some(req[r].t0 + ScheduleDuration)
       ]_vars

\* C21 witness: a refill that was in flight across a clearCaches has written
\* its list, and the slot holds that list together with an expiry
C21_Witness ==
    /\ hist.pendingClear
    /\ SlotComplete(cache.schedules)
    /\ \E r \in Reqs :
          /\ req[r].pc = "done"
          /\ req[r].schedules = cache.schedules.data
          /\ cache.schedules.expiry = Some(req[r].t0 + ScheduleDuration)

\* the reader r enters getSchedules in this step
RaceEnters(r) == req[r].pc = "idle" /\ req'[r].pc # "idle"

\* C22: a reader that finds the schedule slot empty or expired sends its own
\* request for the rotation list, also while the refill of another reader is
\* in flight, and when its response arrives the slot holds its list and its
\* expiry, whatever the slot held before.
C22_RefillsNotDeduplicated ==
    [][\A r \in Reqs :
          /\ (/\ RaceEnters(r)
              /\ ~Fresh(cache.schedules, now)
              /\ ~JiraIncomplete(config.jira))
                 => /\ req'[r].pc = "await_schedules"
                    /\ req'[r].calls.list = 1
          /\ (/\ req[r].pc = "await_schedules"
              /\ req'[r].pc = "done"
              /\ req'[r].schedules # None)
                 => /\ cache'.schedules.data = req'[r].schedules
                    /\ cache'.schedules.expiry = Some(req[r].t0 + ScheduleDuration)
      ]_vars

\* C22 witness: two readers found the slot expired (so neither refill had
\* completed when the other entered), each sent one request, the responses
\* differ, and the slot holds the list of one of them
C22_Witness ==
    /\ req["r1"].pc = "done" /\ req["r2"].pc = "done"
    /\ req["r1"].found = "expired" /\ req["r2"].found = "expired"
    /\ req["r1"].calls.list = 1 /\ req["r2"].calls.list = 1
    /\ req["r1"].schedules # None /\ req["r2"].schedules # None
    /\ req["r1"].schedules # req["r2"].schedules
    /\ cache.schedules.data = req["r2"].schedules

\* The schedule slot holds a list together with the expiry of the fetch that
\* produced it.
SlotExpiryIsOfItsFetch ==
    cache.schedules.data # None =>
        /\ hist.listFetchStart # None
        /\ cache.schedules.expiry = Some(hist.listFetchStart[1] + ScheduleDuration)

\* C36: whatever the order in which concurrent refills write, the expiry kept
\* with a list is the start of its own fetch plus 15 minutes, and a reader is
\* served a list from the slot only less than 15 minutes after that start.
C36_SnapshotServedWithinFifteenMinutes ==
    /\ [](SlotExpiryIsOfItsFetch)
    /\ [][\A r \in Reqs :
             (RaceEnters(r) /\ req'[r].found = "fresh") =>
                 /\ req'[r].schedules = cache.schedules.data
                 /\ hist.listFetchStart # None
                 /\ now < hist.listFetchStart[1] + ScheduleDuration
         ]_vars

\* A reader is served the list of a refill that started before another refill
\* and wrote after it.
C36_Witness ==
    \E r, d \in Reqs :
        /\ r # d
        /\ req[r].pc = "done" /\ req[r].found = "fresh"
        /\ req[r].schedules = cache.schedules.data
        /\ req[d].pc = "done" /\ req[d].found # "fresh" /\ req[d].schedules # None
        /\ hist.listFetchStart # None
        /\ req[d].t0 > hist.listFetchStart[1]
        /\ now > req[d].t0

\* C35: the first reader to start after a clearCaches is not served a list
\* from the cache (a list found there was requested before the clear, no
\* reader having started since).
C35_ClearNotUndoneByRefillInFlight ==
    [][\A r \in Reqs :
          (RaceEnters(r) /\ hist.pendingClear) =>
              ~(/\ Fresh(cache.schedules, now)
                /\ req'[r].found = "fresh"
                /\ req'[r].schedules = cache.schedules.data)
      ]_vars

(***************************************************************************)
(* Properties of SpecDir.                                                  *)
(***************************************************************************)
\* the read of c leaves the import in this step and decides: cache or refetch
ReadDecides(c) == caller[c].pc = "await_import" /\ caller'[c].pc # "await_import"

\* the read of c was answered from the snapshot, nothing fetched
ServedFromCache(c) ==
    /\ caller'[c].pc = "done"
    /\ ~caller'[c].fetched
    /\ UNCHANGED <<phoneDataCache, phoneDataExpiry>>

\* the read of c replaced the snapshot or is on its way to the database
Refetches(c) ==
    caller'[c].fetched \/ caller'[c].pc \in {"await_connect", "await_query"}

\* C4: a read that finds the flag set bypasses the snapshot and refetches, and
\* after it the flag reads as not set; a read that finds the flag not set and
\* a snapshot younger than 1 hour is served from the snapshot without a fetch.
C4_ForceRefreshConsumedByNextRead ==
    [][\A c \in Callers :
          ReadDecides(c) =>
              /\ SyncedFlag => caller'[c].forced /\ Refetches(c) /\ ~SyncedFlag'
              /\ (/\ ~SyncedFlag
                  /\ phoneDataCache # None
                  /\ phoneDataExpiry # None
                  /\ caller[c].t0 < phoneDataExpiry[1]) => ServedFromCache(c)
      ]_vars

AllDigits(s) == \A i \in 1..Len(s) : s[i] \in Digits

ElevenDigits(s) == Len(s) = 11 /\ s[1] = "1" /\ AllDigits(s)

LookupAnswers(c) ==
    caller[c].op = "lookup" /\ caller[c].pc # "done" /\ caller'[c].pc = "done"

\* C14: a lookup answers from the first row of the current snapshot whose
\* e-mail is not empty and equals the requested one up to case, and finds no
\* record when there is no such row.
C14_LookupByEmailIgnoresCase ==
    [][\A c \in Callers :
          LookupAnswers(c) =>
              LET rows == IF phoneDataCache' = None THEN <<>> ELSE phoneDataCache'[1]
                  match == { i \in 1..Len(rows) :
                               /\ rows[i].email # ""
                               /\ ToLowerCase(rows[i].email) = ToLowerCase(caller[c].email) }
              IN  IF match = {}
                  THEN caller'[c].record = None /\ caller'[c].result = NullString
                  ELSE \E i \in match :
                          /\ \A j \in match : i <= j
                          /\ caller'[c].record = Some(rows[i])
      ]_vars

\* C14 witness: a@x.com was looked up in a snapshot holding A@X.COM and then
\* a@x.com, and the first of the two rows was used
C14_Witness ==
    \E c \in Callers :
        /\ caller[c].pc = "done"
        /\ caller[c].email = "a@x.com"
        /\ phoneDataCache # None
        /\ Len(phoneDataCache[1]) = 2
        /\ phoneDataCache[1][1].email = "A@X.COM"
        /\ phoneDataCache[1][2].email = "a@x.com"
        /\ caller[c].record = Some(phoneDataCache[1][1])

\* C17: an isHealthy call ends with true or false and never with an error; a
\* probe whose connect or query failed ends with false.
C17_HealthAlwaysBoolean ==
    \A c \in Callers :
        (caller[c].op = "health" /\ caller[c].pc = "done") =>
            /\ caller[c].thrown = NULL
            /\ caller[c].healthy \in {Some(TRUE), Some(FALSE)}
            /\ caller[c].dbFailed => caller[c].healthy = Some(FALSE)

C25_EnvSelectsBackend ==
    \A c \in Callers :
        (caller[c].op = "lookup" /\ (caller[c].fetched \/ caller[c].db)) =>
            /\ config.useTempFile <=> config.envUseTempFile = "true"
            /\ IF config.envUseTempFile = "true" /\ fileThere
               THEN caller[c].fileRead /\ ~caller[c].db
               ELSE config.envUseTempFile # "true" => ~caller[c].fileRead

\* the sql.connect of initSqlPool called for c settles with a pool in this step
ConnectSucceeds(c) ==
    /\ caller[c].pc \in {"await_connect", "health_connect"}
    /\ caller'[c].pc \in {"await_query", "health_query"}

\* a call of c reaches the sql.connect of initSqlPool in this step
ConnectInvoked(c) ==
    /\ caller[c].pc \notin {"await_connect", "health_connect"}
    /\ caller'[c].pc \in {"await_connect", "health_connect"}

\* C32: the pool is set by one successful connect only: a connect that
\* succeeds finds the pool unset, no connect is invoked while the pool is
\* set, and a failed connect leaves the pool as it was.
C32_PoolInitializedOnce ==
    [][\A c \in Callers :
          /\ ConnectSucceeds(c) => pool = NULL
          /\ ConnectInvoked(c) => pool = NULL
          /\ (/\ caller[c].pc \in {"await_connect", "health_connect"}
              /\ caller'[c].pc = "done") => pool' = pool
      ]_vars

\* the refresh made for the lookup of c ends in this step with a failure of
\* the database
RefreshFails(c) ==
    /\ caller[c].op = "lookup"
    /\ caller[c].pc \in {"await_connect", "await_query"}
    /\ caller'[c].pc = "done"
    /\ caller'[c].dbFailed

\* C34: a refresh that failed stores the empty snapshot with an expiry one
\* hour after its start; a lookup that finds an empty snapshot, no force
\* refresh and the expiry ahead answers null from it without a fetch and
\* without the database; with the flag set or the expiry reached it
\* refreshes.
C34_EmptySnapshotCachedForAnHour ==
    [][\A c \in Callers :
          /\ RefreshFails(c) =>
                /\ phoneDataCache' = Some(<<>>)
                /\ phoneDataExpiry' = Some(caller[c].t0 + CACHE_DURATION)
                /\ caller'[c].result = NullString
          /\ (/\ ReadDecides(c)
              /\ phoneDataCache = Some(<<>>)
              /\ phoneDataExpiry # None) =>
                IF ~SyncedFlag /\ caller[c].t0 < phoneDataExpiry[1]
                THEN /\ ServedFromCache(c)
                     /\ caller'[c].result = NullString
                     /\ ~caller'[c].db
                ELSE Refetches(c)
      ]_vars

\* C34 witness: the refresh of one lookup failed at the database, and another
\* lookup, with the settings complete, was answered null from the empty
\* snapshot without contacting the database
C34_Witness ==
    \E c, d \in Callers :
        /\ caller[c].op = "lookup" /\ caller[c].pc = "done"
        /\ caller[c].fetched /\ caller[c].dbFailed
        /\ caller[d].op = "lookup" /\ caller[d].pc = "done"
        /\ ~caller[d].fetched /\ ~caller[d].db
        /\ caller[d].email = "a@x.com"
        /\ caller[d].result = NullString
        /\ config.username /\ config.password /\ config.database
        /\ phoneDataCache = Some(<<>>)

\* C37: a lookup that finds a record whose cell phone holds no digit never
\* hands back the empty string: it answers as for the same record without a
\* cell phone (the default number when it has an extension, else null).
C37_NoDigitsMeansNoPhone ==
    \A c \in Callers :
        (/\ caller[c].pc = "done" /\ caller[c].op = "lookup"
         /\ caller[c].record # None) =>
            LET record == caller[c].record[1]
            IN  (record.cellPhone # NullString /\ FormatPhone(record.cellPhone) = <<>>) =>
                    /\ caller[c].result # <<>>
                    /\ caller[c].result =
                           PhoneOfRecord([record EXCEPT !.cellPhone = NullString])

\* C38: with Windows authentication, a database and no user name or password,
\* a refresh of the directory contacts the database.
C38_TrustedModeAttemptsConnection ==
    \A c \in Callers :
        (/\ config.authMode = "windows"
         /\ config.database /\ ~config.username /\ ~config.password
         /\ caller[c].op = "lookup"
         /\ caller[c].fetched) => caller[c].db

(***************************************************************************)
(* Properties of SpecShutdown.                                             *)
(***************************************************************************)
\* how often a step occurs in the steps of the shutdown
Started(step) == Cardinality({ i \in 1..Len(proc.steps) : proc.steps[i] = step })

\* C26: a process that exits after a Ctrl+C has closed the database
\* connections and stopped the HTTP server before.
C26_CtrlCShutsDownGracefully ==
    (proc.pc = "exited" /\ proc.ctrlC) =>
        /\ Started("closeSqlConnections") >= 1
        /\ Started("server.close") >= 1

\* an uncaught exception or an unhandled rejection is handled in this step
ErrorHandled ==
    /\ proc'.events = proc.events + 1
    /\ proc'.event \in {"uncaughtException", "unhandledRejection"}

\* C27: an uncaught exception or unhandled rejection is logged and, in
\* production, calls gracefulShutdown, after which the server is shutting
\* down; in any other environment gracefulShutdown is not called and the
\* server, its open requests and its shutdown state are as before.
C27_ErrorsFatalInProductionOnly ==
    [][ErrorHandled =>
          /\ proc'.errors = proc.errors + 1
          /\ IF proc.nodeEnv = "production"
             THEN /\ proc'.shutdownCalls = proc.shutdownCalls + 1
                  /\ proc'.shuttingDown
                  /\ ~proc'.listening
             ELSE /\ proc'.shutdownCalls = proc.shutdownCalls
                  /\ proc'.shuttingDown = proc.shuttingDown
                  /\ proc'.listening = proc.listening
                  /\ proc'.open = proc.open
                  /\ proc'.pc = proc.pc
                  /\ proc'.steps = proc.steps
      ]_vars

\* C27 witness: in development two errors were logged and the server is
\* serving, with a request open and no shutdown started
C27_Witness ==
    /\ proc.nodeEnv = "development"
    /\ proc.errors = 2
    /\ proc.event = "unhandledRejection"
    /\ proc.pc = "serving" /\ proc.listening /\ ~proc.shuttingDown
    /\ proc.open > 0
    /\ proc.shutdownCalls = 0

\* The order of the shutdown as documented.
DocumentedSteps == <<"server.close", "closeSqlConnections", "drained", "exit">>

\* C28: the shutdown stops accepting connections, then closes the database
\* connections, then waits for the open requests, then exits.
C28_ShutdownOrderAsDocumented ==
    \A i \in 1..Len(proc.steps) :
        i <= Len(DocumentedSteps) /\ proc.steps[i] = DocumentedSteps[i]

\* C30: each cleanup step is started at most once, and a call of
\* gracefulShutdown while the server is shutting down leaves the server, the
\* steps, the timer and the exit as they are.
C30_ShutdownIdempotent ==
    /\ [](Started("closeSqlConnections") <= 1 /\ Started("server.close") <= 1)
    /\ [][(proc.shuttingDown /\ proc'.shutdownCalls > proc.shutdownCalls) =>
             /\ proc'.shuttingDown
             /\ proc'.steps = proc.steps
             /\ proc'.listening = proc.listening
             /\ proc'.open = proc.open
             /\ proc'.pc = proc.pc
             /\ proc'.forceExit = proc.forceExit
             /\ proc'.exitCode = proc.exitCode
       ]_vars

\* C30 witness: gracefulShutdown was called three times, last for an uncaught
\* exception during the shutdown, and each cleanup step was started once
C30_Witness ==
    /\ proc.shutdownCalls = 3
    /\ proc.event = "uncaughtException"
    /\ proc.pc = "closing"
    /\ Started("closeSqlConnections") = 1
    /\ Started("server.close") = 1

\* the process has exited by a process.exit of gracefulShutdown
ExitedByShutdown ==
    /\ proc.pc = "exited"
    /\ Len(proc.steps) > 0
    /\ proc.steps[Len(proc.steps)] = "exit"

\* C31: a process that is shutting down exits; an exit of the shutdown itself
\* has code 0 when both cleanup steps completed and code 1 when the 10 s
\* timer fired first.
C31_ShutdownTerminates ==
    /\ proc.shuttingDown ~> proc.pc = "exited"
    /\ [](ExitedByShutdown =>
             IF Started("drained") = 1
             THEN proc.exitCode = Some(0)
             ELSE proc.exitCode = Some(1))

\* C31 witness: a request stayed open, server.close never called back, and
\* the process left the shutdown with exit code 1
C31_Witness ==
    /\ proc.pc = "exited"
    /\ proc.shuttingDown
    /\ proc.open > 0
    /\ Started("server.close") = 1
    /\ Started("drained") = 0
    /\ proc.exitCode = Some(1)

(***************************************************************************)
(* console-dashboard.js: the request and error statistics.                 *)
(***************************************************************************)

\* Completed responses counted before the model accepts no further request.
MaxTracked == 3

\* Calls of logger.error the model follows.
MaxLogged == 11

\* The keys of appState.requests.teams, and the name of every other route.
HelpdeskKey   == <<"h", "e", "l", "p", "d", "e", "s", "k">>
NetworkKey    == <<"n", "e", "t", "w", "o", "r", "k">>
IbmiKey       == <<"i", "b", "m", "i">>
WindowsKey    == <<"w", "i", "n", "d", "o", "w", "s">>
SqlKey        == <<"s", "q", "l">>
SharepointKey == <<"s", "h", "a", "r", "e", "p", "o", "i", "n", "t">>
TestKey       == <<"t", "e", "s", "t">>
HealthKey     == <<"h", "e", "a", "l", "t", "h">>
OtherKey      == <<"o", "t", "h", "e", "r">>

TeamKeys == {HelpdeskKey, NetworkKey, IbmiKey, WindowsKey, SqlKey, SharepointKey, TestKey, HealthKey}

\* The URLs the requests of the model ask for: /helpdesk, /Health, /stats.
Urls ==
    { <<"/">> \o HelpdeskKey,
      <<"/", "H">> \o Tail(HealthKey),
      <<"/", "s", "t", "a", "t", "s">> }

\* res.statusCode of the responses of the model
StatusCodes == {200, 400}

\* String.prototype.toLowerCase on the letters of the model
LowerCaseChar(ch) == IF ch = "H" THEN "h" ELSE ch

StringToLowerCase(str) == [i \in 1..Len(str) |-> LowerCaseChar(str[i])]

\* String.prototype.startsWith
StartsWith(str, prefix) ==
    Len(str) >= Len(prefix) /\ SubSeq(str, 1, Len(prefix)) = prefix

\* /[a-z0-9]/
IsLowerAlnum(ch) ==
    ch \in {"a", "b", "c", "d", "e", "f", "g", "h", "i", "j", "k", "l", "m",
            "n", "o", "p", "q", "r", "s", "t", "u", "v", "w", "x", "y", "z",
            "0", "1", "2", "3", "4", "5", "6", "7", "8", "9"}

\* team.toLowerCase().replace(/[^a-z0-9]/g, "")
NormTeam(team) == SelectSeq(StringToLowerCase(team), IsLowerAlnum)

\* requestTracking: the team of a URL
TeamOfUrl(reqUrl) ==
    LET url == StringToLowerCase(reqUrl)
    IN  IF StartsWith(url, <<"/">> \o HelpdeskKey) THEN HelpdeskKey
        ELSE IF StartsWith(url, <<"/">> \o NetworkKey) THEN NetworkKey
        ELSE IF StartsWith(url, <<"/">> \o IbmiKey) THEN IbmiKey
        ELSE IF StartsWith(url, <<"/">> \o WindowsKey) THEN WindowsKey
        ELSE IF StartsWith(url, <<"/">> \o SqlKey) THEN SqlKey
        ELSE IF StartsWith(url, <<"/">> \o SharepointKey) THEN SharepointKey
        ELSE IF StartsWith(url, <<"/">> \o TestKey) THEN TestKey
        ELSE IF StartsWith(url, <<"/">> \o HealthKey) THEN HealthKey
        ELSE OtherKey

\* const appState = { startTime, requests, lastError, errors, maxErrors }
InitialAppState ==
    [ startTime |-> 0,
      requests  |-> [total |-> 0, success |-> 0, error |-> 0,
                     teams |-> [team \in TeamKeys |-> 0]],
      lastError |-> None,
      errors    |-> <<>>,
      maxErrors |-> 10 ]

\* mutant of TrackRequest: every response counts as a success
TrackRequestAsSuccess(a, team, success) ==
    LET normTeam == NormTeam(team)
        a1 == [a EXCEPT !.requests.total = @ + 1, !.requests.success = @ + 1]
    IN  IF normTeam \in DOMAIN a.requests.teams
        THEN [a1 EXCEPT !.requests.teams[normTeam] = @ + 1]
        ELSE a1

\* trackRequest(team, success)
TrackRequest(a, team, success) ==
    LET normTeam == NormTeam(team)
        a1 == [a EXCEPT !.requests.total = @ + 1,
                        !.requests.success = IF success THEN @ + 1 ELSE @,
                        !.requests.error = IF success THEN @ ELSE @ + 1]
    IN  IF normTeam \in DOMAIN a.requests.teams
        THEN [a1 EXCEPT !.requests.teams[normTeam] = @ + 1]
        ELSE a1

\* mutant of TrackError: the new entry goes to the end and the first is dropped
TrackErrorAppend(a, message, error, timestamp) ==
    LET errorObj == [timestamp |-> timestamp, message |-> message, error |-> error]
        errors == a.errors \o <<errorObj>>
    IN  [a EXCEPT !.lastError = Some(errorObj),
                  !.errors = IF Len(errors) > a.maxErrors THEN Tail(errors)
                             ELSE errors]

\* trackError(message, error); timestamp stands for its new Date()
TrackError(a, message, error, timestamp) ==
    LET errorObj == [timestamp |-> timestamp, message |-> message, error |-> error]
        errors == <<errorObj>> \o a.errors
    IN  [a EXCEPT !.lastError = Some(errorObj),
                  !.errors = IF Len(errors) > a.maxErrors
                             THEN SubSeq(errors, 1, Len(errors) - 1)
                             ELSE errors]

\* resetStats
ResetStats(a) ==
    [a EXCEPT !.requests.total = 0, !.requests.success = 0, !.requests.error = 0,
              !.requests.teams = [team \in DOMAIN @ |-> 0]]

DashSlots == {"s1", "s2"}

\* One response: whether res.end is still the wrapper of requestTracking and
\* how often res.end has been called.
IdleResponse ==
    [pc |-> "idle", url |-> NULL, team |-> NULL, wrapped |-> FALSE, statusCode |-> 0,
     ends |-> 0]

\* The number of logger.error calls so far; an entry's timestamp is the rank of
\* the call that made it.
Logged == IF appState.lastError = None THEN 0 ELSE appState.lastError[1].timestamp

InitDash ==
    /\ appState = InitialAppState
    /\ responses = [s \in DashSlots |-> IdleResponse]
    /\ now = 0
    /\ cache = NULL /\ config = NULL /\ req = NULL /\ hist = NULL
    /\ phoneDataCache = None /\ phoneDataExpiry = None /\ forceRefresh = FALSE
    /\ api = NULL /\ pool = NULL /\ fileThere = FALSE /\ caller = NULL
    /\ rawPhone = NullString /\ formatted = NullString
    /\ proc = NULL

\* requestTracking(req, res, next): res.end is wrapped
RequestTracking(s) ==
    /\ responses[s].pc = "idle"
    /\ appState.requests.total
          + Cardinality({x \in DashSlots : responses[x].wrapped}) < MaxTracked
    /\ \E url \in Urls :
          responses' = [responses EXCEPT ![s] =
              [IdleResponse EXCEPT !.pc = "open", !.url = url,
                                   !.team = TeamOfUrl(url), !.wrapped = TRUE]]
    /\ UNCHANGED <<appState, now, mainVars, dirVars, normVars, proc>>

\* res.end(...) of a response: the wrapper, when it is still in place, puts the
\* original back, ends the response and tracks it
ResEnd(s) ==
    /\ responses[s].pc \in {"open", "ended"}
    /\ responses[s].ends < 2
    /\ \E statusCode \in StatusCodes :
          LET code == IF responses[s].pc = "open" THEN statusCode
                      ELSE responses[s].statusCode
          IN  /\ appState' = IF responses[s].wrapped
                             THEN TrackRequest(appState, responses[s].team, code < 400)
                             ELSE appState
              /\ responses' = [responses EXCEPT ![s] =
                    [@ EXCEPT !.pc = "ended", !.wrapped = FALSE,
                              !.statusCode = code, !.ends = @ + 1]]
    /\ UNCHANGED <<now, mainVars, dirVars, normVars, proc>>

\* the response is gone; the slot serves the next request
ResponseFinish(s) ==
    /\ responses[s].pc = "ended"
    /\ responses' = [responses EXCEPT ![s] = IdleResponse]
    /\ UNCHANGED <<appState, now, mainVars, dirVars, normVars, proc>>

\* GET /stats/reset: requestTracking, dashboard.resetStats(), res.json(...)
\* (the handler has no await: request and response are one step)
StatsReset ==
    /\ appState' = TrackRequest(ResetStats(appState),
                                TeamOfUrl(<<"/", "s", "t", "a", "t", "s", "/",
                                            "r", "e", "s", "e", "t">>), 200 < 400)
    /\ UNCHANGED <<responses, now, mainVars, dirVars, normVars, proc>>

\* logger.error(message, error)
LoggerError ==
    /\ Logged < MaxLogged
    /\ \E message \in {"Error looking up phone number"} :
          appState' = TrackError(appState, message, NullString, Logged + 1)
    /\ UNCHANGED <<responses, now, mainVars, dirVars, normVars, proc>>

NextDash ==
    \/ \E s \in DashSlots : RequestTracking(s)
    \/ \E s \in DashSlots : ResEnd(s)
    \/ \E s \in DashSlots : ResponseFinish(s)
    \/ StatsReset
    \/ LoggerError

SpecDash == InitDash /\ [][NextDash]_vars

(***************************************************************************)
(* Properties of SpecDash.                                                 *)
(***************************************************************************)

RECURSIVE SumOver(_, _)
SumOver(f, keys) ==
    IF keys = {} THEN 0
    ELSE LET k == CHOOSE x \in keys : TRUE
         IN  f[k] + SumOver(f, keys \ {k})

\* total = success + error, and the team counters together are at most total
CountersConsistent ==
    /\ appState.requests.total = appState.requests.success + appState.requests.error
    /\ SumOver(appState.requests.teams, DOMAIN appState.requests.teams)
          <= appState.requests.total

\* resetStats zeroes the counters and leaves the rest of appState alone
ResetStatsZeroesCountersOnly ==
    LET a == ResetStats(appState)
    IN  /\ a.requests.total = 0 /\ a.requests.success = 0 /\ a.requests.error = 0
        /\ \A team \in DOMAIN a.requests.teams : a.requests.teams[team] = 0
        /\ DOMAIN a.requests.teams = DOMAIN appState.requests.teams
        /\ a.startTime = appState.startTime
        /\ a.lastError = appState.lastError
        /\ a.errors = appState.errors

\* the first res.end of a response counts it once, by its status
FirstEndCountsOnce(s) ==
    (responses[s].pc = "open" /\ responses'[s].pc = "ended") =>
        /\ appState'.requests.total = appState.requests.total + 1
        /\ IF responses'[s].statusCode < 400
           THEN /\ appState'.requests.success = appState.requests.success + 1
                /\ appState'.requests.error = appState.requests.error
           ELSE /\ appState'.requests.success = appState.requests.success
                /\ appState'.requests.error = appState.requests.error + 1

\* a further res.end of the same response counts nothing
LaterEndCountsNothing(s) ==
    (responses[s].pc = "ended" /\ responses'[s].ends > responses[s].ends) =>
        appState' = appState

\* the response of GET /stats/reset is the first one counted after the reset
ResetStep ==
    (/\ appState'.requests # appState.requests
     /\ appState'.requests.total <= appState.requests.total) =>
        /\ appState'.requests.total = 1 /\ appState'.requests.success = 1
        /\ \A team \in TeamKeys : appState'.requests.teams[team] = 0
        /\ appState'.startTime = appState.startTime
        /\ appState'.lastError = appState.lastError
        /\ appState'.errors = appState.errors

\* C39: total = success + error and the team counters sum to at most total;
\* each completed response adds one to total and one to success (status below
\* 400) or error, once; resetStats zeroes total, success, error and the team
\* counters and leaves startTime, lastError and the error list as they were.
C39_StatisticsConsistent ==
    /\ [](CountersConsistent /\ ResetStatsZeroesCountersOnly)
    /\ [][/\ \A s \in DashSlots : FirstEndCountsOnce(s) /\ LaterEndCountsNothing(s)
          /\ ResetStep]_vars

\* C39 witness: after a reset with errors on the list, a failed /helpdesk
\* response and a successful one to an untracked route have been counted, and
\* one of them has had res.end called twice
C39_Witness ==
    /\ appState.requests.total = 3
    /\ appState.requests.success = 2
    /\ appState.requests.error = 1
    /\ appState.requests.teams[HelpdeskKey] = 1
    /\ appState.requests.teams[HealthKey] = 0
    /\ Len(appState.errors) = 2
    /\ \E s \in DashSlots : responses[s].pc = "ended" /\ responses[s].ends = 2
    /\ \E s \in DashSlots : responses[s].pc = "ended" /\ responses[s].statusCode = 400

\* An entry of the error list made by a later call stands before one made by
\* an earlier call.
NewestFirst ==
    \A i, j \in 1..Len(appState.errors) :
        i < j => appState.errors[i].timestamp > appState.errors[j].timestamp

\* logger.error puts its entry first and, on a full list, drops the last one
ErrorStep ==
    appState'.errors # appState.errors =>
        /\ Len(appState'.errors) >= 1
        /\ appState'.errors[1].timestamp = Logged + 1
        /\ Tail(appState'.errors) =
              IF Len(appState.errors) = 10
              THEN SubSeq(appState.errors, 1, 9)
              ELSE appState.errors

\* lastError is null before the first error and the first entry of the list after
LastErrorIsFirstEntry ==
    IF appState.errors = <<>> THEN appState.lastError = None
    ELSE appState.lastError = Some(appState.errors[1])

\* C40: the error list has at most 10 entries, newest first; lastError is its
\* first entry once an error has been logged; a new error on a full list
\* drops the oldest entry.
C40_ErrorListBoundedAndOrdered ==
    /\ [](Len(appState.errors) <= 10 /\ NewestFirst /\ LastErrorIsFirstEntry)
    /\ [][ErrorStep]_vars

\* C40 witness: the eleventh error has pushed the first one off the full list
C40_Witness ==
    /\ Len(appState.errors) = 10
    /\ appState.errors[1].timestamp = 11
    /\ appState.errors[10].timestamp = 2
    /\ appState.lastError = Some(appState.errors[1])

====
